---- MODULE Spec2Model ----
(***************************************************************************)
(* Model of the CSV ingestion and normalisation pipeline of risk_review:   *)
(* src/utils/processor.ts (normalizeContent, processCSV, processRiskCSV,   *)
(* processSourceMapping, downloadZip, downloadRiskData), src/App.tsx (the  *)
(* batch processor) and src/components/RiskAnalyzer.tsx.                   *)
(*                                                                         *)
(* A JavaScript string is a sequence of characters, each written as a      *)
(* string: an ASCII character as itself, a Chinese character by its pinyin *)
(* ("nei", "rong" for the two characters of the header 'content' column's  *)
(* Chinese name), the full-width colon U+FF1A as "fwcolon".                *)
(***************************************************************************)
EXTENDS Integers, Sequences, FiniteSets, TLC

VARIABLES
    nText,      \* SpecNorm: the argument given to normalizeContent
    nOnce,      \* SpecNorm: normalizeContent(nText)
    nTwice,     \* SpecNorm: normalizeContent(nOnce)
    nPc,        \* SpecNorm: "in", "once" or "twice"
    pFile,      \* function specifications: the argument given to the function
    pOut,       \* function specifications: what the function gave back
    pPc,        \* function specifications: "in" or "done"
    data,           \* RiskAnalyzer: the risk dataset
    loading,        \* RiskAnalyzer: the loading flag
    error,          \* RiskAnalyzer: the error message, or NoError for null
    selectedIds,    \* RiskAnalyzer: the selected row ids
    hasSourceData,  \* RiskAnalyzer: the linked flag
    riskBatches,    \* RiskAnalyzer: the calls of handleFilesSelect, in call order
    sourceLoading,  \* RiskAnalyzer: the loading flag of the source-mapping join
    sourceJobs,     \* RiskAnalyzer: the calls of handleSourceFileSelect, in call order
    threshold,      \* RiskAnalyzer: the score threshold, in units of 0.00001
    processedFiles, \* App: the processed-file list
    appLoading,     \* App: the loading flag
    previewFileId,  \* App: the id of the previewed file, or NoId for null
    appBatches,     \* App: the calls of handleFilesSelect, in call order
    nextId          \* App: the number of ids generateId has returned

normVars == <<nText, nOnce, nTwice, nPc>>
procVars == <<pFile, pOut, pPc>>
riskVars == <<data, loading, error, selectedIds, hasSourceData, riskBatches,
              sourceLoading, sourceJobs, threshold>>
appVars  == <<processedFiles, appLoading, previewFileId, appBatches, nextId>>

(***************************************************************************)
(* Strings                                                                 *)
(***************************************************************************)

\* The characters String.prototype.trim removes and the regex class \s matches
\* (those of them that the model's inputs use).
WhiteSpace == {" ", "\t", "\n", "\r"}

\* The characters of the regex class [\t\n\r] of normalizeContent.
LineBreaks == {"\t", "\n", "\r"}

\* The literal prefix of the regex in normalizeContent (six Chinese characters,
\* "user review text").
Prefix == <<"yong", "hu", "ping", "jia", "wen", "ben">>

\* The regex class of the ASCII colon and the full-width colon in normalizeContent.
Colons == {":", "fwcolon"}

\* The value of a missing property (row[key] of a row without that cell). It
\* is not a string: no string of the model has an element of this name.
Undefined == <<"undefined">>

\* JavaScript truthiness of a value that is a string or undefined.
Truthy(v) == v # Undefined /\ v # <<>>

RECURSIVE DropWhile(_, _)
DropWhile(s, set) ==
    IF s # <<>> /\ Head(s) \in set THEN DropWhile(Tail(s), set) ELSE s

RECURSIVE DropLastWhile(_, _)
DropLastWhile(s, set) ==
    IF s # <<>> /\ s[Len(s)] \in set
    THEN DropLastWhile(SubSeq(s, 1, Len(s) - 1), set)
    ELSE s

\* String.prototype.trim
trim(s) == DropLastWhile(DropWhile(s, WhiteSpace), WhiteSpace)

\* String.prototype.startsWith
StartsWith(s, p) == Len(s) >= Len(p) /\ SubSeq(s, 1, Len(p)) = p

\* s without its first n characters
Drop(s, n) == SubSeq(s, n + 1, Len(s))

\* String.prototype.includes
includes(s, p) == \E i \in 0..(Len(s) - Len(p)) : SubSeq(s, i + 1, i + Len(p)) = p

(***************************************************************************)
(* normalizeContent                                                        *)
(***************************************************************************)

\* A variant that strips every leading occurrence of the prefix.
StripPrefixRepeated(s) ==
    LET RECURSIVE Strip(_)
        Strip(t) ==
            IF StartsWith(t, Prefix)
            THEN LET a == Drop(t, Len(Prefix))
                     b == IF a # <<>> /\ Head(a) \in Colons THEN Tail(a) ELSE a
                 IN  Strip(DropWhile(b, WhiteSpace))
            ELSE t
    IN  Strip(s)

\* s.replace(/^<Prefix>[<Colons>]?\s*/, ''): the regex is anchored and not global,
\* so at most one match, at index 0, is replaced.
StripPrefix(s) ==
    IF StartsWith(s, Prefix)
    THEN LET afterPrefix == Drop(s, Len(Prefix))
             afterColon  == IF afterPrefix # <<>> /\ Head(afterPrefix) \in Colons
                            THEN Tail(afterPrefix)
                            ELSE afterPrefix
         IN  DropWhile(afterColon, WhiteSpace)
    ELSE s

\* s.replace(/[\t\n\r]+/g, ' '): every maximal run becomes one space.
RECURSIVE CollapseLineBreaks(_)
CollapseLineBreaks(s) ==
    IF s = <<>> THEN <<>>
    ELSE IF Head(s) \in LineBreaks
         THEN <<" ">> \o CollapseLineBreaks(DropWhile(s, LineBreaks))
         ELSE <<Head(s)>> \o CollapseLineBreaks(Tail(s))

\* A variant that does not trim its argument before matching the prefix.
normalizeContentNoTrim(text) ==
    IF ~Truthy(text) THEN <<>>
    ELSE trim(CollapseLineBreaks(StripPrefix(text)))

normalizeContent(text) ==
    IF ~Truthy(text) THEN <<>>
    ELSE LET clean == StripPrefix(trim(text))
         IN  trim(CollapseLineBreaks(clean))

(***************************************************************************)
(* Files, decoding and parsing                                             *)
(*                                                                         *)
(* A file is the text its author wrote, as a header list and rows of       *)
(* cells, with the encoding its bytes are written in. Decoding the bytes   *)
(* with the label they were written in gives the text back; decoding them  *)
(* with the other label keeps every ASCII character (both encodings agree  *)
(* on ASCII, so delimiters and ASCII headers survive) and turns every      *)
(* other character into mojibake.                                          *)
(***************************************************************************)

\* The characters of the model that are not ASCII.
NonAscii ==
    { "yong", "hu", "ping", "jia", "wen", "ben", "nei", "rong", "feng", "xian",
      "de", "fen", "xin", "an", "quan", "suan", "zi", "yi", "ji", "lei", "xing",
      "ye", "wu", "fang", "fwcolon" }

\* What a decoder of the wrong label makes of the bytes of character c.
Mojibake(c) == "~" \o c

\* new TextDecoder(label).decode(bytes of s written in encoding)
DecodeString(label, encoding, s) ==
    IF label = encoding THEN s
    ELSE [i \in 1..Len(s) |-> IF s[i] \in NonAscii THEN Mojibake(s[i]) ELSE s[i]]

\* Papa.parse(new TextDecoder(label).decode(buffer), {header: true,
\* skipEmptyLines: true}): meta.fields and data. A row is the sequence of its
\* cells in header order; a row shorter than the header list lacks the
\* properties of the missing cells; a line that is one empty cell is skipped.
DecodeAndParse(label, file) ==
    LET IsEmptyLine(row) == Len(row) = 1 /\ row[1] = <<>>
        lines == SelectSeq(file.rows, LAMBDA row : ~IsEmptyLine(row))
    IN  [ fields |-> [i \in 1..Len(file.fields) |->
                          DecodeString(label, file.encoding, file.fields[i])],
          data   |-> [r \in 1..Len(lines) |->
                          [i \in 1..Len(lines[r]) |->
                              DecodeString(label, file.encoding, lines[r][i])]] ]

\* Array.prototype.find over the header list with the predicate "is in the set
\* matching": the first header of the set, or undefined.
Find(fields, matching) ==
    IF \E i \in 1..Len(fields) : fields[i] \in matching
    THEN fields[CHOOSE i \in 1..Len(fields) :
                    /\ fields[i] \in matching
                    /\ \A j \in 1..(i - 1) : fields[j] \notin matching]
    ELSE Undefined

\* The headers of a header list, as a set.
Headers(fields) == { fields[i] : i \in 1..Len(fields) }

\* row[key] for a row of the table with header list fields.
Cell(fields, row, key) ==
    IF \E i \in 1..Len(fields) : fields[i] = key /\ i <= Len(row)
    THEN row[CHOOSE i \in 1..Len(fields) : fields[i] = key /\ i <= Len(row)]
    ELSE Undefined

\* The headers of the model.
H_neirong == <<"nei", "rong">>
H_content == <<"c", "o", "n", "t", "e", "n", "t">>
H_id      == <<"i", "d">>

\* A header that trims to 'content'.
H_contentPadded == H_content \o <<" ">>

(***************************************************************************)
(* processCSV                                                              *)
(***************************************************************************)

STRATEGY == "service_safe_cate_v2"

\* The predicate of fields.find in processCSV.
IsContentHeader(f) == trim(f) = H_neirong \/ trim(f) = H_content

\* A variant of the loop that forgets the rows it has seen but the last one.
ProcessRowsAdjacent(fields, rows, contentKey) ==
    LET RECURSIVE Loop(_, _)
        Loop(i, acc) ==
            IF i > Len(rows) THEN acc
            ELSE LET contentValue == Cell(fields, rows[i], contentKey)
                     cleanContent == normalizeContent(contentValue)
                 IN  IF Truthy(contentValue) /\ cleanContent # <<>>
                        /\ cleanContent \notin acc.seenContent
                     THEN Loop(i + 1,
                               [ seenContent    |-> {cleanContent},
                                 processedData  |-> Append(acc.processedData,
                                     [strategy |-> STRATEGY, content |-> cleanContent]),
                                 validCount     |-> acc.validCount + 1,
                                 skippedCount   |-> acc.skippedCount ])
                     ELSE Loop(i + 1, [acc EXCEPT !.skippedCount = @ + 1])
    IN  Loop(1, [ seenContent |-> {}, processedData |-> <<>>,
                  validCount |-> 0, skippedCount |-> 0 ])

\* A variant of the loop that does not count a row without content as skipped.
ProcessRowsUncounted(fields, rows, contentKey) ==
    LET RECURSIVE Loop(_, _)
        Loop(i, acc) ==
            IF i > Len(rows) THEN acc
            ELSE LET contentValue == Cell(fields, rows[i], contentKey)
                     cleanContent == normalizeContent(contentValue)
                 IN  IF ~Truthy(contentValue) THEN Loop(i + 1, acc)
                     ELSE IF cleanContent # <<>> /\ cleanContent \notin acc.seenContent
                     THEN Loop(i + 1,
                               [ seenContent    |-> acc.seenContent \cup {cleanContent},
                                 processedData  |-> Append(acc.processedData,
                                     [strategy |-> STRATEGY, content |-> cleanContent]),
                                 validCount     |-> acc.validCount + 1,
                                 skippedCount   |-> acc.skippedCount ])
                     ELSE Loop(i + 1, [acc EXCEPT !.skippedCount = @ + 1])
    IN  Loop(1, [ seenContent |-> {}, processedData |-> <<>>,
                  validCount |-> 0, skippedCount |-> 0 ])

\* rows.forEach of processCSV, with the closure's seenContent, processedData,
\* validCount and skippedCount as the accumulator.
ProcessRows(fields, rows, contentKey) ==
    LET RECURSIVE Loop(_, _)
        Loop(i, acc) ==
            IF i > Len(rows) THEN acc
            ELSE LET contentValue == Cell(fields, rows[i], contentKey)
                     cleanContent == normalizeContent(contentValue)
                 IN  IF Truthy(contentValue)
                     THEN IF cleanContent # <<>> /\ cleanContent \notin acc.seenContent
                          THEN Loop(i + 1,
                                    [ seenContent    |-> acc.seenContent \cup {cleanContent},
                                      processedData  |-> Append(acc.processedData,
                                          [strategy |-> STRATEGY, content |-> cleanContent]),
                                      validCount     |-> acc.validCount + 1,
                                      skippedCount   |-> acc.skippedCount ])
                          ELSE Loop(i + 1, [acc EXCEPT !.skippedCount = @ + 1])
                     ELSE Loop(i + 1, [acc EXCEPT !.skippedCount = @ + 1])
    IN  Loop(1, [ seenContent |-> {}, processedData |-> <<>>,
                  validCount |-> 0, skippedCount |-> 0 ])

ZeroStats == [totalRows |-> 0, validRows |-> 0, skippedRows |-> 0]

\* A rejected promise of processCSV, with the Error's message.
RejectCSV(message) ==
    [ok |-> FALSE, data |-> <<>>, stats |-> ZeroStats, error |-> message]

ERR_READ == "Failed to read file"
ERR_NO_CONTENT == "Could not find the column named 'neirong' or 'content' in the CSV file."

\* The promise processCSV(file) settles with: the bytes are decoded as GBK only.
processCSV(file) ==
    IF ~file.readable THEN RejectCSV(ERR_READ)
    ELSE LET results    == DecodeAndParse("gbk", file)
             rows       == results.data
             fields     == results.fields
             contentKey == Find(fields, { f \in Headers(fields) : IsContentHeader(f) })
         IN  IF ~Truthy(contentKey) THEN RejectCSV(ERR_NO_CONTENT)
             ELSE LET acc == ProcessRows(fields, rows, contentKey)
                  IN  [ ok    |-> TRUE,
                        data  |-> acc.processedData,
                        stats |-> [ totalRows   |-> Len(rows),
                                    validRows   |-> acc.validCount,
                                    skippedRows |-> acc.skippedCount ],
                        error |-> "" ]

(***************************************************************************)
(* parseFloat                                                              *)
(*                                                                         *)
(* A Number is [kind, milli]: kind "finite" with the value in thousandths  *)
(* (the score cells of the model have at most three decimals), kind        *)
(* "Infinity" with milli the sign, or kind "NaN".                          *)
(***************************************************************************)

Digits == <<"0", "1", "2", "3", "4", "5", "6", "7", "8", "9">>
DigitSet == { Digits[i] : i \in 1..Len(Digits) }
DigitValue(c) == (CHOOSE i \in 1..Len(Digits) : Digits[i] = c) - 1

NaN == [kind |-> "NaN", milli |-> 0]
isNaN(n) == n.kind = "NaN"

RECURSIVE TakeWhile(_, _)
TakeWhile(s, set) ==
    IF s # <<>> /\ Head(s) \in set THEN <<Head(s)>> \o TakeWhile(Tail(s), set) ELSE <<>>

\* The value of a digit string (0 for the empty one).
RECURSIVE Decimal(_)
Decimal(ds) ==
    IF ds = <<>> THEN 0
    ELSE 10 * Decimal(SubSeq(ds, 1, Len(ds) - 1)) + DigitValue(ds[Len(ds)])

RECURSIVE Pow10(_)
Pow10(n) == IF n = 0 THEN 1 ELSE 10 * Pow10(n - 1)

INFINITY_TEXT == <<"I", "n", "f", "i", "n", "i", "t", "y">>

\* The global parseFloat: leading whitespace is skipped, then the longest prefix
\* that is a StrDecimalLiteral is converted and whatever follows is ignored.
parseFloat(text) ==
    IF text = Undefined THEN NaN
    ELSE
    LET t        == DropWhile(text, WhiteSpace)
        signed   == t # <<>> /\ Head(t) \in {"+", "-"}
        sign     == IF signed /\ Head(t) = "-" THEN -1 ELSE 1
        u        == IF signed THEN Tail(t) ELSE t
        intPart  == TakeWhile(u, DigitSet)
        v        == Drop(u, Len(intPart))
        dotted   == v # <<>> /\ Head(v) = "."
        fracPart == IF dotted THEN TakeWhile(Tail(v), DigitSet) ELSE <<>>
        w        == IF dotted THEN Drop(v, 1 + Len(fracPart)) ELSE v
        expMark  == w # <<>> /\ Head(w) \in {"e", "E"}
        x        == IF expMark THEN Tail(w) ELSE <<>>
        expSigned == x # <<>> /\ Head(x) \in {"+", "-"}
        expDigits == TakeWhile(IF expSigned THEN Tail(x) ELSE x, DigitSet)
        exponent == IF expMark /\ expDigits # <<>>
                    THEN (IF expSigned /\ Head(x) = "-" THEN -1 ELSE 1) * Decimal(expDigits)
                    ELSE 0
        frac3    == SubSeq(fracPart \o <<"0", "0", "0">>, 1, 3)
        mantissa == 1000 * Decimal(intPart) + Decimal(frac3)
    IN  IF StartsWith(u, INFINITY_TEXT) THEN [kind |-> "Infinity", milli |-> sign]
        ELSE IF intPart = <<>> /\ fracPart = <<>> THEN NaN
        ELSE [ kind  |-> "finite",
               milli |-> IF exponent >= 0
                         THEN sign * mantissa * Pow10(exponent)
                         ELSE sign * (mantissa \div Pow10(-exponent)) ]

(***************************************************************************)
(* processRiskCSV                                                          *)
(***************************************************************************)

F_fxdf      == <<"feng", "xian", "de", "fen">>
F_wxaqsz    == <<"wen", "xin", "an", "quan", "suan", "zi">>
F_RiskScore == <<"R", "i", "s", "k", " ", "S", "c", "o", "r", "e">>
F_yjfxlx    == <<"yi", "ji", "feng", "xian", "lei", "xing">>
H_scoreV2   == F_wxaqsz \o <<"V", "2", "-">> \o F_fxdf
H_typeV2    == F_wxaqsz \o <<"V", "2", "-">> \o F_yjfxlx
NOT_AVAILABLE == <<"N", "/", "A">>

isColumnFound(f) ==
    includes(f, F_fxdf) \/ includes(f, F_wxaqsz) \/ includes(f, F_RiskScore)


\* a || b for values that are strings or undefined.
OrElse(a, b) == IF Truthy(a) THEN a ELSE b

\* A variant of the fallback that keeps the rows of the GBK parse.
DecodeWithFallbackStaleRows(file) ==
    LET gbk      == DecodeAndParse("gbk", file)
        scoreGbk == Find(gbk.fields, { f \in Headers(gbk.fields) : isColumnFound(f) })
    IN  IF Truthy(scoreGbk)
        THEN [attempts |-> <<"gbk">>, fields |-> gbk.fields, data |-> gbk.data,
              scoreKey |-> scoreGbk]
        ELSE LET utf8 == DecodeAndParse("utf-8", file)
             IN  [attempts |-> <<"gbk", "utf-8">>, fields |-> utf8.fields,
                  data |-> gbk.data, scoreKey |-> Find(utf8.fields, { f \in Headers(utf8.fields) : isColumnFound(f) })]

\* The decode attempts of processRiskCSV: GBK first and, when no GBK header
\* satisfies isColumnFound, UTF-8, whose parse then replaces the first one.
\* attempts records the labels the buffer was decoded with.
DecodeWithFallback(file) ==
    LET gbk      == DecodeAndParse("gbk", file)
        scoreGbk == Find(gbk.fields, { f \in Headers(gbk.fields) : isColumnFound(f) })
    IN  IF Truthy(scoreGbk)
        THEN [attempts |-> <<"gbk">>, fields |-> gbk.fields, data |-> gbk.data,
              scoreKey |-> scoreGbk]
        ELSE LET utf8 == DecodeAndParse("utf-8", file)
             IN  [attempts |-> <<"gbk", "utf-8">>, fields |-> utf8.fields,
                  data |-> utf8.data, scoreKey |-> Find(utf8.fields, { f \in Headers(utf8.fields) : isColumnFound(f) })]

\* findColumn of processRiskCSV.
findColumn(fields, target) ==
    Find(fields, { f \in Headers(fields) : includes(trim(f), target) })

\* contentKey of processRiskCSV: the first header that trims to 'content' or to
\* the Chinese name, else the first that contains the Chinese name, else the
\* first that contains 'content'.
contentKeyRisk(fields) ==
    OrElse(Find(fields, { f \in Headers(fields) : trim(f) \in {H_content, H_neirong} }),
           OrElse(findColumn(fields, H_neirong), findColumn(fields, H_content)))

\* typeKey of processRiskCSV.
typeKeyRisk(fields) ==
    LET typeExact == Find(fields, { f \in Headers(fields) : trim(f) = H_typeV2 })
    IN  IF ~Truthy(typeExact) THEN findColumn(fields, F_yjfxlx) ELSE typeExact

\* rows.forEach of processRiskCSV: the rows pushed to riskData.
ExtractRisk(fields, rows, scoreKey) ==
    LET contentKey == contentKeyRisk(fields)
        typeKey    == typeKeyRisk(fields)
        RECURSIVE Loop(_, _)
        Loop(i, riskData) ==
            IF i > Len(rows) THEN riskData
            ELSE LET row      == rows[i]
                     scoreRaw == Cell(fields, row, scoreKey)
                     score    == parseFloat(scoreRaw)
                 IN  IF ~Truthy(scoreRaw) \/ isNaN(score) THEN Loop(i + 1, riskData)
                     ELSE LET rawContent ==
                                  IF Truthy(contentKey) THEN Cell(fields, row, contentKey)
                                  ELSE <<>>
                              normalizedContent == normalizeContent(rawContent)
                          IN  Loop(i + 1, Append(riskData,
                                  [ id          |-> i - 1,
                                    content     |-> IF normalizedContent # <<>>
                                                    THEN normalizedContent ELSE rawContent,
                                    riskScore   |-> score,
                                    riskType    |-> IF Truthy(typeKey)
                                                    THEN Cell(fields, row, typeKey)
                                                    ELSE NOT_AVAILABLE,
                                    originalRow |-> row ]))
    IN  Loop(1, <<>>)

ERR_NO_SCORE == "Could not find column 'wenxinanquansuanziV2-fengxiandefen' (or similar). Found columns: "

\* The promise processRiskCSV(file) settles with.
processRiskCSV(file) ==
    IF ~file.readable
    THEN [ok |-> FALSE, rows |-> <<>>, attempts |-> <<>>,
          error |-> [message |-> ERR_READ, columns |-> <<>>]]
    ELSE LET d == DecodeWithFallback(file)
         IN  IF ~Truthy(d.scoreKey)
             THEN [ok |-> FALSE, rows |-> <<>>, attempts |-> d.attempts,
                   error |-> [message |-> ERR_NO_SCORE, columns |-> d.fields]]
             ELSE [ok |-> TRUE, rows |-> ExtractRisk(d.fields, d.data, d.scoreKey),
                   attempts |-> d.attempts,
                   error |-> [message |-> "", columns |-> <<>>]]

(***************************************************************************)
(* processSourceMapping                                                    *)
(*                                                                         *)
(* A Map<string, string> is a function from its keys to their values.      *)
(***************************************************************************)

LowerCase == <<"a", "b", "c", "d", "e", "f", "g", "h", "i", "j", "k", "l", "m",
               "n", "o", "p", "q", "r", "s", "t", "u", "v", "w", "x", "y", "z">>
UpperCase == <<"A", "B", "C", "D", "E", "F", "G", "H", "I", "J", "K", "L", "M",
               "N", "O", "P", "Q", "R", "S", "T", "U", "V", "W", "X", "Y", "Z">>

\* String.prototype.toUpperCase (the characters of the model other than the
\* lower-case ASCII letters have no upper-case form of their own).
toUpperCase(s) ==
    [i \in 1..Len(s) |->
        IF \E k \in 1..Len(LowerCase) : LowerCase[k] = s[i]
        THEN UpperCase[CHOOSE k \in 1..Len(LowerCase) : LowerCase[k] = s[i]]
        ELSE s[i]]

H_NID   == <<"N", "I", "D">>
F_ywfid == <<"ye", "wu", "fang", "i", "d">>

\* The predicate of fields.find for nidKey.
IsNidHeader(f) == toUpperCase(trim(f)) = H_NID \/ includes(f, F_ywfid)

\* nidKey of processSourceMapping for one decode.
nidKeyOf(fields) == Find(fields, { f \in Headers(fields) : IsNidHeader(f) })

\* contentKey of processSourceMapping.
contentKeySource(fields) ==
    OrElse(Find(fields, { f \in Headers(fields) : trim(f) \in {H_content, H_neirong} }),
           Find(fields, { f \in Headers(fields) : includes(f, H_neirong) }))

\* new Map()
EmptyMap == [k \in {} |-> <<>>]

\* Map.prototype.set
MapSet(m, k, v) == [x \in DOMAIN m \cup {k} |-> IF x = k THEN v ELSE m[x]]

\* Map.prototype.get
MapGet(m, k) == IF k \in DOMAIN m THEN m[k] ELSE Undefined

\* A variant of the loop that keeps the first NID set for a content.
BuildMappingFirstWins(fields, rows, nidKey, contentKey) ==
    LET RECURSIVE Loop(_, _)
        Loop(i, mapping) ==
            IF i > Len(rows) THEN mapping
            ELSE LET nid          == Cell(fields, rows[i], nidKey)
                     content      == Cell(fields, rows[i], contentKey)
                     cleanContent == normalizeContent(content)
                 IN  IF Truthy(nid) /\ Truthy(content) /\ cleanContent # <<>>
                        /\ cleanContent \notin DOMAIN mapping
                     THEN Loop(i + 1, MapSet(mapping, cleanContent, nid))
                     ELSE Loop(i + 1, mapping)
    IN  Loop(1, EmptyMap)

\* rows.forEach of processSourceMapping.
BuildMapping(fields, rows, nidKey, contentKey) ==
    LET RECURSIVE Loop(_, _)
        Loop(i, mapping) ==
            IF i > Len(rows) THEN mapping
            ELSE LET nid          == Cell(fields, rows[i], nidKey)
                     content      == Cell(fields, rows[i], contentKey)
                     cleanContent == normalizeContent(content)
                 IN  IF Truthy(nid) /\ Truthy(content) /\ cleanContent # <<>>
                     THEN Loop(i + 1, MapSet(mapping, cleanContent, nid))
                     ELSE Loop(i + 1, mapping)
    IN  Loop(1, EmptyMap)

\* The decode attempts of processSourceMapping: GBK first and, when no GBK
\* header is an NID header, UTF-8, whose parse then replaces the first one.
DecodeSource(file) ==
    LET gbk == DecodeAndParse("gbk", file)
    IN  IF Truthy(nidKeyOf(gbk.fields))
        THEN [attempts |-> <<"gbk">>, fields |-> gbk.fields, data |-> gbk.data,
              nidKey |-> nidKeyOf(gbk.fields)]
        ELSE LET utf8 == DecodeAndParse("utf-8", file)
             IN  [attempts |-> <<"gbk", "utf-8">>, fields |-> utf8.fields,
                  data |-> utf8.data, nidKey |-> nidKeyOf(utf8.fields)]

ERR_READ_SOURCE == "Failed to read source file"
ERR_NO_NID == "Could not find 'NID' column in source file."
ERR_NO_SOURCE_CONTENT == "Could not find 'Content' column in source file."

\* A rejected promise of processSourceMapping, with the Error's message.
RejectSource(message, attempts) ==
    [ok |-> FALSE, mapping |-> EmptyMap, attempts |-> attempts, error |-> message]

\* The promise processSourceMapping(file) settles with.
processSourceMapping(file) ==
    IF ~file.readable THEN RejectSource(ERR_READ_SOURCE, <<>>)
    ELSE LET d == DecodeSource(file)
             contentKey == contentKeySource(d.fields)
         IN  IF ~Truthy(d.nidKey) THEN RejectSource(ERR_NO_NID, d.attempts)
             ELSE IF ~Truthy(contentKey)
                  THEN RejectSource(ERR_NO_SOURCE_CONTENT, d.attempts)
                  ELSE [ ok       |-> TRUE,
                         mapping  |-> BuildMapping(d.fields, d.data, d.nidKey, contentKey),
                         attempts |-> d.attempts,
                         error    |-> "" ]

(***************************************************************************)
(* downloadRiskData                                                        *)
(***************************************************************************)

\* row.nid, undefined for a row no join has given an nid.
RowNid(row) == IF "nid" \in DOMAIN row THEN row.nid ELSE Undefined

\* A variant of the copy that does not take the original row along.
WithNidShallow(row, nid) ==
    [f \in DOMAIN row \cup {"nid"} |->
        IF f = "nid" THEN nid ELSE IF f = "originalRow" THEN <<>> ELSE row[f]]

\* { ...row, nid }
WithNid(row, nid) ==
    [f \in DOMAIN row \cup {"nid"} |-> IF f = "nid" THEN nid ELSE row[f]]

\* The string of a non-negative integer.
RECURSIVE NatToString(_)
NatToString(n) ==
    IF n < 10 THEN <<Digits[n + 1]>>
    ELSE NatToString(n \div 10) \o <<Digits[(n % 10) + 1]>>

\* Number.prototype.toString for the Numbers of the model: the decimals of a
\* finite Number are written without trailing zeros.
NumberToString(n) ==
    IF n.kind = "NaN" THEN <<"N", "a", "N">>
    ELSE IF n.kind = "Infinity"
    THEN (IF n.milli < 0 THEN <<"-">> ELSE <<>>) \o INFINITY_TEXT
    ELSE LET abs    == IF n.milli < 0 THEN -n.milli ELSE n.milli
             frac3  == <<Digits[((abs \div 100) % 10) + 1], Digits[((abs \div 10) % 10) + 1],
                         Digits[(abs % 10) + 1]>>
             frac   == DropLastWhile(frac3, {"0"})
         IN  (IF n.milli < 0 THEN <<"-">> ELSE <<>>)
             \o NatToString(abs \div 1000)
             \o (IF frac = <<>> THEN <<>> ELSE <<".">> \o frac)

\* The text a template literal writes for a value that is a string or undefined.
TemplateText(v) ==
    IF v = Undefined THEN <<"u", "n", "d", "e", "f", "i", "n", "e", "d">> ELSE v

\* The byte-order mark U+FEFF, one character.
BOM == <<"BOM">>

RISK_HEADER ==
    <<"n", "i", "d", ",", "r", "i", "s", "k", "_", "s", "c", "o", "r", "e", ",",
      "r", "i", "s", "k", "_", "t", "y", "p", "e", ",", "c", "o", "n", "t", "e", "n", "t">>

\* A variant that writes the content as it is.
safeContentUnescaped(content) == content

\* row.content.replace(/"/g, '""')
safeContent(content) ==
    LET RECURSIVE Replace(_)
        Replace(t) ==
            IF t = <<>> THEN <<>>
            ELSE (IF Head(t) = "\"" THEN <<"\"", "\"">> ELSE <<Head(t)>>)
                 \o Replace(Tail(t))
    IN  Replace(content)

\* `${row.nid || ''},${row.riskScore},${row.riskType},` of the template literal.
RiskLinePrefix(row) ==
    OrElse(RowNid(row), <<>>) \o <<",">> \o NumberToString(row.riskScore) \o <<",">>
        \o TemplateText(row.riskType) \o <<",">>

\* The line of one row.
RiskLine(row) == RiskLinePrefix(row) \o <<"\"">> \o safeContent(row.content) \o <<"\"">>

\* Array.prototype.join('\n')
RECURSIVE JoinLines(_)
JoinLines(lines) ==
    IF lines = <<>> THEN <<>>
    ELSE IF Len(lines) = 1 THEN lines[1]
    ELSE lines[1] \o <<"\n">> \o JoinLines(Tail(lines))

\* downloadRiskData(data): the text of the Blob it offers for download, or the
\* TypeError of row.content.replace for a row whose content is undefined.
downloadRiskData(rows) ==
    IF \E k \in 1..Len(rows) : rows[k].content = Undefined
    THEN [thrown |-> TRUE, name |-> "", text |-> <<>>]
    ELSE [ thrown |-> FALSE,
           name   |-> "risk_analysis_export.csv",
           text   |-> BOM \o RISK_HEADER \o <<"\n">>
                          \o JoinLines([k \in 1..Len(rows) |-> RiskLine(rows[k])]) ]

(***************************************************************************)
(* formatFileContent and downloadZip                                       *)
(*                                                                         *)
(* The strategy tag and the two words of the header line are written as    *)
(* one character each. A JSZip archive is a function from the names of its *)
(* entries to their contents.                                              *)
(***************************************************************************)

TXT_HEADER == <<"strategy", "\t", "content">>

\* formatFileContent(data)
formatFileContent(rows) ==
    TXT_HEADER \o <<"\n">>
        \o JoinLines([k \in 1..Len(rows) |->
                         <<rows[k].strategy>> \o <<"\t">> \o rows[k].content])

\* The extensions /\.(csv|txt)$/i matches, in the cases the model's names use.
DataExtensions ==
    { <<".", "c", "s", "v">>, <<".", "t", "x", "t">>, <<".", "C", "S", "V">> }

\* file.originalName.replace(/\.(csv|txt)$/i, '')
safeName(originalName) ==
    IF Len(originalName) >= 4
       /\ SubSeq(originalName, Len(originalName) - 3, Len(originalName)) \in DataExtensions
    THEN SubSeq(originalName, 1, Len(originalName) - 4)
    ELSE originalName

PROCESSED_SUFFIX ==
    <<"_", "p", "r", "o", "c", "e", "s", "s", "e", "d", ".", "t", "x", "t">>

\* The predicate of the early return of files.forEach in downloadZip (and, negated,
\* of the filter of handleDownloadAll).
SkippedInZip(file) == file.error # "" \/ Len(file.data) = 0

\* files.forEach of downloadZip: zip.file(name, content) adds the entry, or
\* replaces the entry of that name.
ZipEntries(files) ==
    LET RECURSIVE Loop(_, _)
        Loop(i, zip) ==
            IF i > Len(files) THEN zip
            ELSE IF SkippedInZip(files[i]) THEN Loop(i + 1, zip)
            ELSE Loop(i + 1, MapSet(zip, safeName(files[i].originalName) \o PROCESSED_SUFFIX,
                                    formatFileContent(files[i].data)))
    IN  Loop(1, EmptyMap)

NoDownload == [downloaded |-> FALSE, name |-> "", entries |-> EmptyMap]

\* downloadZip(files): the archive it offers for download.
downloadZip(files) ==
    [downloaded |-> TRUE, name |-> "batch_processed_files.zip", entries |-> ZipEntries(files)]

\* handleDownloadAll of App, for the processed-file list files.
handleDownloadAll(files) ==
    LET validFiles == SelectSeq(files, LAMBDA f : ~SkippedInZip(f))
    IN  IF Len(validFiles) = 0 THEN NoDownload ELSE downloadZip(validFiles)

(***************************************************************************)
(* SpecNorm: normalizeContent applied once and twice to a bounded input    *)
(***************************************************************************)

\* The inputs are concatenations of at most MaxPieces of these pieces.
MaxPieces == 4

Pieces ==
    { Prefix, <<":">>, <<"fwcolon">>, <<" ">>, <<"\t">>, <<"\r", "\n">>,
      <<"a">>, <<"yong", "hu">> }

RECURSIVE Flatten(_)
Flatten(ps) == IF ps = <<>> THEN <<>> ELSE Head(ps) \o Flatten(Tail(ps))

\* The variables of the specifications that are not running.
NoFile == [name |-> "", encoding |-> "gbk", readable |-> FALSE, fields |-> <<>>, rows |-> <<>>]

NoError == [message |-> "", columns |-> <<>>]
NoId == 0

IdleNorm == nText = <<>> /\ nOnce = <<>> /\ nTwice = <<>> /\ nPc = "idle"
IdleProc == pFile = NoFile /\ pOut = <<>> /\ pPc = "idle"

\* useState<number>(0.0001): the threshold is counted in units of 0.00001, the
\* step of the two threshold inputs.
DefaultThreshold == 10

\* The state of RiskAnalyzer after construction (its useState initial values).
InitRisk ==
    /\ data = <<>>
    /\ loading = FALSE
    /\ error = NoError
    /\ selectedIds = {}
    /\ hasSourceData = FALSE
    /\ riskBatches = <<>>
    /\ sourceLoading = FALSE
    /\ sourceJobs = <<>>
    /\ threshold = DefaultThreshold

\* The state of App after construction (its useState initial values).
InitApp ==
    /\ processedFiles = <<>>
    /\ appLoading = FALSE
    /\ previewFileId = NoId
    /\ appBatches = <<>>
    /\ nextId = 0

InitNorm ==
    /\ \E n \in 0..MaxPieces : \E ps \in [1..n -> Pieces] : nText = Flatten(ps)
    /\ nOnce = <<>>
    /\ nTwice = <<>>
    /\ nPc = "in"
    /\ IdleProc /\ InitRisk /\ InitApp

NormalizeOnce ==
    /\ nPc = "in"
    /\ nOnce' = normalizeContent(nText)
    /\ nPc' = "once"
    /\ UNCHANGED <<nText, nTwice, procVars, riskVars, appVars>>

NormalizeTwice ==
    /\ nPc = "once"
    /\ nTwice' = normalizeContent(nOnce)
    /\ nPc' = "twice"
    /\ UNCHANGED <<nText, nOnce, procVars, riskVars, appVars>>

NextNorm == NormalizeOnce \/ NormalizeTwice

vars == <<normVars, procVars, riskVars, appVars>>

SpecNorm == InitNorm /\ [][NextNorm]_vars

(***************************************************************************)
(* SpecCSV: processCSV applied to a bounded file                           *)
(***************************************************************************)

\* The files have at most MaxRows rows.
MaxRows == 3

Encodings == {"gbk", "utf-8"}

\* Header lists: the content column under each of its two names, padded with
\* spaces, next to an id column, under both names in either order, and three
\* lists without a content column.
CsvHeaderLists ==
    { <<H_neirong>>, <<H_content>>, << <<" ">> \o H_neirong \o <<" ">> >>,
      <<H_id, H_content>>, <<H_neirong, H_id>>,
      <<H_contentPadded, H_neirong>>, <<H_neirong, H_contentPadded>>,
      << <<"wen", "ben">> \o H_neirong >>, <<H_id>>,
      << <<"C", "o", "n", "t", "e", "n", "t">> >> }

\* Content cells: empty, plain, prefixed (equal to a plain one once normalized),
\* the bare prefix and a blank (both empty once normalized).
ContentCells ==
    { <<>>, <<"a">>, <<"b">>, Prefix \o <<"fwcolon", " ", "a">>, Prefix, <<" ">> }

CsvCellsOf(header) ==
    IF header = H_id THEN { <<"7">> }
    ELSE IF header = H_contentPadded THEN { <<"c">> }
    ELSE ContentCells

\* The rows a file can hold when cells[i] are the cells of its column i: a cell
\* for every header, or for the first few of them only.
RowsOf(cells) ==
    UNION { { row \in [1..n -> UNION { cells[i] : i \in 1..Len(cells) }] :
                \A i \in 1..n : row[i] \in cells[i] } : n \in 1..Len(cells) }

SeqsUpTo(S, n) == UNION { [1..k -> S] : k \in 0..n }

\* A file of the given encoding, headers and rows.
File(name, e, h, rs) ==
    [name |-> name, encoding |-> e, readable |-> TRUE, fields |-> h, rows |-> rs]

\* A file whose read fails (reader.onerror).
Unreadable(f) == [f EXCEPT !.readable = FALSE]

InitCSV ==
    /\ \E e \in Encodings, h \in CsvHeaderLists :
           \E rs \in SeqsUpTo(RowsOf([i \in 1..Len(h) |-> CsvCellsOf(h[i])]), MaxRows) :
               \/ pFile = File("f.csv", e, h, rs)
               \/ rs = <<>> /\ pFile = Unreadable(File("f.csv", e, h, rs))
    /\ pOut = <<>>
    /\ pPc = "in"
    /\ IdleNorm /\ InitRisk /\ InitApp

\* reader.readAsArrayBuffer(file) and the onload (or onerror) handler of processCSV.
RunProcessCSV ==
    /\ pPc = "in"
    /\ pOut' = processCSV(pFile)
    /\ pPc' = "done"
    /\ UNCHANGED <<pFile, normVars, riskVars, appVars>>

NextCSV == RunProcessCSV

SpecCSV == InitCSV /\ [][NextCSV]_vars

(***************************************************************************)
(* SpecRiskCSV: processRiskCSV applied to a bounded file                   *)
(***************************************************************************)

\* The risk files have at most MaxRiskRows rows.
MaxRiskRows == 2

H_score == <<"s", "c", "o", "r", "e">>

\* Header lists: the score column under its canonical name, a Chinese fragment
\* and the ASCII name 'Risk Score', with and without content and type columns,
\* the canonical score column after the type column, and a list without any
\* score column.
RiskHeaderLists ==
    { <<H_scoreV2, H_neirong>>,
      <<F_fxdf, H_typeV2>>,
      <<H_typeV2, H_scoreV2>>,
      <<H_content, F_RiskScore>>,
      <<H_neirong, F_RiskScore>>,
      <<F_fxdf>>,
      <<H_neirong, H_score>> }

\* Score cells: empty, decimals, a negative number, Infinity, a number followed
\* by text, text, a number with an exponent, a number after a blank.
ScoreCells ==
    { <<>>, <<"0", ".", "5">>, <<"0">>, <<"-", "1">>, INFINITY_TEXT, <<"5", "x">>,
      <<"x">>, <<"1", "e", "2">>, <<" ", ".", "2", "5">> }

RiskCellsOf(header) ==
    IF header \in {H_scoreV2, F_fxdf, F_RiskScore, H_score} THEN ScoreCells
    ELSE IF header \in {H_neirong, H_content} THEN { Prefix \o <<"a">>, Prefix, <<"b">> }
    ELSE { <<"lei">> }

InitRiskCSV ==
    /\ \E e \in Encodings, h \in RiskHeaderLists :
           \E rs \in SeqsUpTo(RowsOf([i \in 1..Len(h) |-> RiskCellsOf(h[i])]), MaxRiskRows) :
               \/ pFile = File("r.csv", e, h, rs)
               \/ rs = <<>> /\ pFile = Unreadable(File("r.csv", e, h, rs))
    /\ pOut = <<>>
    /\ pPc = "in"
    /\ IdleNorm /\ InitRisk /\ InitApp

\* reader.readAsArrayBuffer(file) and the onload (or onerror) handler of
\* processRiskCSV.
RunProcessRiskCSV ==
    /\ pPc = "in"
    /\ pOut' = processRiskCSV(pFile)
    /\ pPc' = "done"
    /\ UNCHANGED <<pFile, normVars, riskVars, appVars>>

NextRiskCSV == RunProcessRiskCSV

SpecRiskCSV == InitRiskCSV /\ [][NextRiskCSV]_vars

(***************************************************************************)
(* SpecSource: processSourceMapping applied to a bounded file              *)
(***************************************************************************)

\* The source files have at most MaxSourceRows rows.
MaxSourceRows == 2

\* Header lists: the NID column under its ASCII name (in two cases) and its
\* Chinese name, the content column under its two names, under both of them
\* in either order and under a longer name, and lists that lack one of the two.
SourceHeaderLists ==
    { <<H_NID, H_neirong>>,
      << <<"n", "i", "d">>, H_content >>,
      << <<"x">> \o F_ywfid, H_neirong >>,
      <<H_NID, H_contentPadded, H_neirong>>,
      <<H_neirong, H_contentPadded, H_NID>>,
      << H_NID, <<"wen", "ben">> \o H_neirong >>,
      <<H_content>>,
      <<H_NID>> }

\* NID cells: empty and two ids. Content cells: empty, plain, prefixed (equal
\* to a plain one once normalized) and the bare prefix (empty once normalized).
NidCells == { <<>>, <<"N", "1">>, <<"N", "2">> }
SourceContentCells == { <<>>, <<"a">>, <<"b">>, Prefix \o <<":", " ", "a">>, Prefix }

SourceCellsOf(header) ==
    IF IsNidHeader(header) THEN NidCells
    ELSE IF header = H_contentPadded THEN { <<"c">> }
    ELSE SourceContentCells

InitSource ==
    /\ \E e \in Encodings, h \in SourceHeaderLists :
           \E rs \in SeqsUpTo(RowsOf([i \in 1..Len(h) |-> SourceCellsOf(h[i])]), MaxSourceRows) :
               \/ pFile = File("source.csv", e, h, rs)
               \/ rs = <<>> /\ pFile = Unreadable(File("source.csv", e, h, rs))
    /\ pOut = <<>>
    /\ pPc = "in"
    /\ IdleNorm /\ InitRisk /\ InitApp

\* reader.readAsArrayBuffer(file) and the onload (or onerror) handler of
\* processSourceMapping.
RunProcessSourceMapping ==
    /\ pPc = "in"
    /\ pOut' = processSourceMapping(pFile)
    /\ pPc' = "done"
    /\ UNCHANGED <<pFile, normVars, riskVars, appVars>>

NextSource == RunProcessSourceMapping

SpecSource == InitSource /\ [][NextSource]_vars

(***************************************************************************)
(* SpecExport: downloadRiskData applied to a bounded list of rows          *)
(***************************************************************************)

\* The lists given to downloadRiskData have at most MaxExportRows rows.
MaxExportRows == 2

\* Contents: empty, plain, with double quotes (one, two in a row, around a
\* word, at the end), with a comma and with a line break, and the undefined
\* content of a row whose content cell is missing.
ExportContents ==
    { <<>>, <<"a">>, <<"\"">>, <<"\"", "\"">>, <<"a", "\"", "b">>,
      <<"H", "e", " ", "\"", "h", "i", "\"">>, <<"a", ",", "\"", "\n", "b">>,
      Undefined }

\* Rows: each content without an nid and with one.
ExportRows ==
    UNION { { [ id |-> 0, content |-> c, riskScore |-> [kind |-> "finite", milli |-> 500],
                riskType |-> <<"lei">>, originalRow |-> <<>> ],
              [ id |-> 0, content |-> c, riskScore |-> [kind |-> "finite", milli |-> 1000],
                riskType |-> NOT_AVAILABLE, originalRow |-> <<>>, nid |-> <<"N", "1">> ] } :
            c \in ExportContents }

InitExport ==
    /\ pFile \in SeqsUpTo(ExportRows, MaxExportRows)
    /\ pOut = <<>>
    /\ pPc = "in"
    /\ IdleNorm /\ InitRisk /\ InitApp

RunDownloadRiskData ==
    /\ pPc = "in"
    /\ pOut' = downloadRiskData(pFile)
    /\ pPc' = "done"
    /\ UNCHANGED <<pFile, normVars, riskVars, appVars>>

NextExport == RunDownloadRiskData

SpecExport == InitExport /\ [][NextExport]_vars

(***************************************************************************)
(* SpecZip: downloadZip applied to a bounded list of file results          *)
(***************************************************************************)

\* The lists given to downloadZip have at most MaxZipFiles file results.
MaxZipFiles == 2

\* File names: two with the same base name, one with an upper-case extension.
ZipNames ==
    { <<"a", ".", "c", "s", "v">>, <<"a", ".", "t", "x", "t">>, <<"b", ".", "C", "S", "V">> }

\* File results: for each name a result with one row, one with two rows, one
\* without rows and one with an error; the id of a result in a list is its
\* position (generateId gives every file an id of its own).
ZipResults ==
    UNION { { [ id |-> 1, originalName |-> n,
                data |-> << [strategy |-> STRATEGY, content |-> <<"x">>] >>,
                stats |-> [totalRows |-> 1, validRows |-> 1, skippedRows |-> 0],
                error |-> "" ],
              [ id |-> 1, originalName |-> n,
                data |-> << [strategy |-> STRATEGY, content |-> <<"x">>],
                            [strategy |-> STRATEGY, content |-> <<"y">>] >>,
                stats |-> [totalRows |-> 3, validRows |-> 2, skippedRows |-> 1],
                error |-> "" ],
              [ id |-> 1, originalName |-> n, data |-> <<>>,
                stats |-> [totalRows |-> 1, validRows |-> 0, skippedRows |-> 1],
                error |-> "" ],
              [ id |-> 1, originalName |-> n, data |-> <<>>, stats |-> ZeroStats,
                error |-> ERR_NO_CONTENT ] } : n \in ZipNames }

InitZip ==
    /\ \E fs \in SeqsUpTo(ZipResults, MaxZipFiles) :
           pFile = [i \in 1..Len(fs) |-> [fs[i] EXCEPT !.id = i]]
    /\ pOut = <<>>
    /\ pPc = "in"
    /\ IdleNorm /\ InitRisk /\ InitApp

\* downloadZip called with the list.
RunDownloadZip ==
    /\ pPc = "in"
    /\ pOut' = downloadZip(pFile)
    /\ pPc' = "done"
    /\ UNCHANGED <<pFile, normVars, riskVars, appVars>>

\* The button 'Download All' of App with the list as processedFiles.
RunHandleDownloadAll ==
    /\ pPc = "in"
    /\ pOut' = handleDownloadAll(pFile)
    /\ pPc' = "done"
    /\ UNCHANGED <<pFile, normVars, riskVars, appVars>>

NextZip == RunDownloadZip \/ RunHandleDownloadAll

SpecZip == InitZip /\ [][NextZip]_vars

(***************************************************************************)
(* SpecFormat: formatFileContent applied to a bounded list of rows         *)
(***************************************************************************)

\* The lists given to formatFileContent have at most MaxFormatRows rows.
MaxFormatRows == 2

\* Contents: plain, empty, with a blank, and with a tab, a newline, a carriage
\* return or a carriage return and a newline inside, and a lone tab.
FormatContents ==
    { <<"a">>, <<>>, <<"a", " ", "b">>, <<"a", "\t", "b">>, <<"a", "\n", "b">>,
      <<"a", "\r", "b">>, <<"a", "\r", "\n", "b">>, <<"\t">> }

InitFormat ==
    /\ pFile \in SeqsUpTo({ [strategy |-> STRATEGY, content |-> c] : c \in FormatContents },
                           MaxFormatRows)
    /\ pOut = <<>>
    /\ pPc = "in"
    /\ IdleNorm /\ InitRisk /\ InitApp

RunFormatFileContent ==
    /\ pPc = "in"
    /\ pOut' = formatFileContent(pFile)
    /\ pPc' = "done"
    /\ UNCHANGED <<pFile, normVars, riskVars, appVars>>

NextFormat == RunFormatFileContent

SpecFormat == InitFormat /\ [][NextFormat]_vars

(***************************************************************************)
(* Spec: RiskAnalyzer                                                      *)
(*                                                                         *)
(* A call of handleFilesSelect is a batch: its files, the promises of      *)
(* processRiskCSV that have settled (loaded) with what they settled with   *)
(* (results), and whether the await of Promise.all has returned or thrown  *)
(* (settled). The FileReader events of the files of all batches arrive in  *)
(* any order; the continuation of handleFilesSelect runs in the microtasks *)
(* of the event that settles Promise.all, so it is part of that step.      *)
(*                                                                         *)
(* A call of handleSourceFileSelect is a job: its file and whether the     *)
(* await of processSourceMapping has returned or thrown (done). A row of   *)
(* the dataset has the property nid once a join has set it.                *)
(***************************************************************************)

\* At most MaxRiskUploads files are given to RiskAnalyzer in a session.
MaxRiskUploads == 2

\* The risk files of the session: two files with rows (the first one drops its
\* second row, so its per-file ids are 0 and 2), a file without score column
\* and a file whose only row has no valid score.
RiskFiles ==
    { File("r1.csv", "gbk", <<H_neirong, H_scoreV2>>,
           << <<<<"b">>, <<"0", ".", "5">>>>,
              <<Prefix \o <<"a">>, <<"x">>>>,
              <<Prefix \o <<"a">>, <<"0">>>> >>),
      File("r2.csv", "utf-8", <<H_content, F_RiskScore>>,
           << <<<<"b">>, <<"0", ".", "2">>>> >>),
      File("bad.csv", "gbk", <<H_neirong, H_score>>,
           << <<<<"b">>, <<"0", ".", "5">>>> >>),
      File("empty.csv", "gbk", <<F_fxdf>>, << <<<<"x">>>> >>) }

Pending == [ok |-> FALSE, rows |-> <<>>, attempts |-> <<>>, error |-> NoError]

ERR_NO_VALID_ROWS == "No valid rows found in the uploaded files. Please check the column names."
ERR_PARSE_FALLBACK == "Failed to parse one or more files."

RECURSIVE FlatRows(_)
FlatRows(results) ==
    IF results = <<>> THEN <<>> ELSE Head(results).rows \o FlatRows(Tail(results))

\* A variant of the merge that keeps the ids processRiskCSV assigned.
combinedDataKeepIds(results) == FlatRows(results)

\* results.flatMap(fileRows => fileRows.map(row => ({...row, id:
\* globalIdCounter++}))) of handleFilesSelect.
combinedData(results) ==
    LET all == FlatRows(results)
    IN  [k \in 1..Len(all) |-> [all[k] EXCEPT !.id = k - 1]]

RECURSIVE SumLen(_)
SumLen(batches) ==
    IF batches = <<>> THEN 0 ELSE Len(Head(batches).files) + SumLen(Tail(batches))

\* handleFilesSelect of RiskAnalyzer up to its await: the uploader is rendered
\* only while data is empty; a drop does not check the loading flag.
RiskHandleFilesSelect ==
    /\ data = <<>>
    /\ \E n \in 1..(MaxRiskUploads - SumLen(riskBatches)) :
           \E files \in [1..n -> RiskFiles] :
               riskBatches' = Append(riskBatches,
                   [ files   |-> files,
                     loaded  |-> {},
                     results |-> [i \in 1..n |-> Pending],
                     settled |-> FALSE ])
    /\ loading' = TRUE
    /\ error' = NoError
    /\ data' = <<>>
    /\ selectedIds' = {}
    /\ hasSourceData' = FALSE
    /\ UNCHANGED <<sourceLoading, sourceJobs, threshold, normVars, procVars, appVars>>

\* A variant of Promise.all that is fulfilled with the first fulfilled promise.
FirstFulfilled(files, loaded) == loaded # {}

\* Promise.all(promises) is fulfilled when every promise of the array is: the
\* promises of the indices in loaded are settled.
AllFulfilled(files, loaded) == loaded = 1..Len(files)

\* The FileReader event of file i of batch b: the promise of processRiskCSV
\* settles, and with it possibly Promise.all and the rest of handleFilesSelect.
RiskFileLoaded ==
    \E b \in 1..Len(riskBatches) : \E i \in 1..Len(riskBatches[b].files) :
      \E result \in { processRiskCSV(riskBatches[b].files[i]) } :
        LET batch   == riskBatches[b]
            loaded  == batch.loaded \cup {i}
            results == [batch.results EXCEPT ![i] = result]
            allIn   == AllFulfilled(batch.files, loaded)
            rejects == ~batch.settled /\ ~result.ok
            merges  == ~batch.settled /\ result.ok /\ allIn
            merged  == combinedData(results)
        IN  /\ i \notin batch.loaded
            /\ riskBatches' = [riskBatches EXCEPT ![b] =
                   [ files   |-> batch.files,
                     loaded  |-> loaded,
                     results |-> results,
                     settled |-> batch.settled \/ rejects \/ merges ]]
            /\ data' = IF merges /\ merged # <<>> THEN merged ELSE data
            /\ error' = IF rejects
                        THEN [message |-> IF result.error.message # ""
                                          THEN result.error.message
                                          ELSE ERR_PARSE_FALLBACK,
                              columns |-> result.error.columns]
                        ELSE IF merges /\ merged = <<>>
                             THEN [message |-> ERR_NO_VALID_ROWS, columns |-> <<>>]
                             ELSE error
            /\ loading' = IF rejects \/ merges THEN FALSE ELSE loading
            /\ UNCHANGED <<selectedIds, hasSourceData, sourceLoading, sourceJobs,
                           threshold, normVars, procVars, appVars>>

\* The button 'Upload New Files', rendered while data is not empty.
UploadNewFiles ==
    /\ data # <<>>
    /\ data' = <<>>
    /\ UNCHANGED <<loading, error, selectedIds, hasSourceData, riskBatches,
                   sourceLoading, sourceJobs, threshold, normVars, procVars, appVars>>

\* At most MaxSourceUploads source files are given to RiskAnalyzer in a session.
MaxSourceUploads == 1

\* The source files of the session: one that maps the content of some rows of
\* the risk files (a) and of none of the others (b), one that maps a content no
\* risk file has, and one without NID column.
SourceFiles ==
    { File("map.csv", "gbk", <<H_NID, H_neirong>>,
           << <<<<"N", "1">>, Prefix \o <<":", " ", "a">>>>,
              <<<<"N", "2">>, <<"b", "b">>>> >>),
      File("nomatch.csv", "utf-8", << <<"n", "i", "d">>, H_content >>,
           << <<<<"N", "2">>, <<"c">>>> >>),
      File("nonid.csv", "gbk", <<H_content>>, << <<<<"a">>>> >>) }

ERR_SOURCE_PREFIX == "Source File Error: "

\* A variant of the join that gives every row the NID of some mapped content.
JoinRowsUnkeyed(prevData, mapping) ==
    [k \in 1..Len(prevData) |->
        IF DOMAIN mapping # {}
        THEN WithNid(prevData[k], mapping[CHOOSE c \in DOMAIN mapping : TRUE])
        ELSE prevData[k]]

\* prevData.map(row => { const nid = mapping.get(row.content); return nid ?
\* { ...row, nid } : row; }) of handleSourceFileSelect.
JoinRows(prevData, mapping) ==
    [k \in 1..Len(prevData) |->
        LET nid == MapGet(mapping, prevData[k].content)
        IN  IF Truthy(nid) THEN WithNid(prevData[k], nid) ELSE prevData[k]]

\* updated.filter(r => r.nid).length
matchedCount(updated) ==
    Cardinality({ k \in 1..Len(updated) : Truthy(RowNid(updated[k])) })

\* handleSourceFileSelect up to its await: the source input is rendered while
\* the dataset is not empty and the linked flag is off, and is disabled while
\* sourceLoading is on.
SourceFileSelect ==
    /\ data # <<>>
    /\ ~hasSourceData
    /\ ~sourceLoading
    /\ Len(sourceJobs) < MaxSourceUploads
    /\ \E file \in SourceFiles :
           sourceJobs' = Append(sourceJobs, [file |-> file, done |-> FALSE])
    /\ sourceLoading' = TRUE
    /\ error' = NoError
    /\ UNCHANGED <<data, loading, selectedIds, hasSourceData, riskBatches,
                   threshold, normVars, procVars, appVars>>

\* The FileReader event of the source file of job j: the promise of
\* processSourceMapping settles and the rest of handleSourceFileSelect runs,
\* with the updater of setData applied to the dataset of that moment.
SourceFileLoaded ==
    \E j \in 1..Len(sourceJobs) :
      \E result \in { processSourceMapping(sourceJobs[j].file) } :
        \E updated \in { JoinRows(data, result.mapping) } :
            /\ ~sourceJobs[j].done
            /\ sourceJobs' = [sourceJobs EXCEPT ![j].done = TRUE]
            /\ data' = IF result.ok THEN updated ELSE data
            /\ hasSourceData' = IF result.ok /\ matchedCount(updated) > 0
                                THEN TRUE ELSE hasSourceData
            /\ error' = IF result.ok THEN error
                        ELSE [message |-> ERR_SOURCE_PREFIX \o result.error,
                              columns |-> <<>>]
            /\ sourceLoading' = FALSE
            /\ UNCHANGED <<loading, selectedIds, riskBatches, threshold,
                           normVars, procVars, appVars>>

\* row.riskScore >= threshold, for a score in thousandths and a threshold in
\* units of 0.00001.
ScoreAtLeast(score, t) ==
    IF score.kind = "finite" THEN score.milli * 100 >= t
    ELSE score.kind = "Infinity" /\ score.milli > 0

\* The comparator (a, b) => b.riskScore - a.riskScore is negative: the score of
\* a is the greater one. Infinity - Infinity is NaN, which sort takes for 0.
ScoreGreater(a, b) ==
    LET Rank(n) == IF n.kind = "finite" THEN 0 ELSE n.milli
    IN  \/ Rank(a) > Rank(b)
        \/ a.kind = "finite" /\ b.kind = "finite" /\ a.milli > b.milli

\* Array.prototype.sort with that comparator: descending by score, rows of
\* equal score in the order they had (the sort is stable).
RECURSIVE SortByScore(_)
SortByScore(rows) ==
    IF rows = <<>> THEN <<>>
    ELSE LET first  == Head(rows)
             rest   == SortByScore(Tail(rows))
             before == SelectSeq(rest, LAMBDA r : ScoreGreater(r.riskScore, first.riskScore))
             after  == SelectSeq(rest, LAMBDA r : ~ScoreGreater(r.riskScore, first.riskScore))
         IN  before \o <<first>> \o after

\* A variant of filteredData that leaves the rows in dataset order.
filteredDataUnsorted(rows, t) ==
    SelectSeq(rows, LAMBDA row : ScoreAtLeast(row.riskScore, t))

\* data.filter(row => row.riskScore >= threshold).sort((a, b) => b.riskScore -
\* a.riskScore)
filteredData(rows, t) ==
    SortByScore(SelectSeq(rows, LAMBDA row : ScoreAtLeast(row.riskScore, t)))

\* The value toggleSelectRow(id) gives selectedIds.
toggleSelectRow(ids, id) == IF id \in ids THEN ids \ {id} ELSE ids \cup {id}

\* The value toggleSelectAll() gives selectedIds.
toggleSelectAll(ids, filtered) ==
    LET filteredIds == { filtered[k].id : k \in 1..Len(filtered) }
        allFilteredSelected == Len(filtered) > 0 /\ filteredIds \subseteq ids
    IN  IF allFilteredSelected THEN {} ELSE filteredIds

\* The checkbox of a row of the table: the table, rendered while the dataset is
\* not empty, has one row per row of filteredData.
ToggleSelectRow ==
    /\ data # <<>>
    /\ \E row \in { filteredData(data, threshold)[k] :
                        k \in 1..Len(filteredData(data, threshold)) } :
           selectedIds' = toggleSelectRow(selectedIds, row.id)
    /\ UNCHANGED <<data, loading, error, hasSourceData, riskBatches, sourceLoading,
                   sourceJobs, threshold, normVars, procVars, appVars>>

\* The checkbox of the table header.
ToggleSelectAll ==
    /\ data # <<>>
    /\ selectedIds' = toggleSelectAll(selectedIds, filteredData(data, threshold))
    /\ UNCHANGED <<data, loading, error, hasSourceData, riskBatches, sourceLoading,
                   sourceJobs, threshold, normVars, procVars, appVars>>

\* The button 'Clear Selection', rendered while the selection is not empty.
ClearSelection ==
    /\ data # <<>>
    /\ selectedIds # {}
    /\ selectedIds' = {}
    /\ UNCHANGED <<data, loading, error, hasSourceData, riskBatches, sourceLoading,
                   sourceJobs, threshold, normVars, procVars, appVars>>

\* Math.max(...data.map(d => d.riskScore)) of a non-empty dataset.
maxScore(rows) ==
    CHOOSE m \in { rows[k].riskScore : k \in 1..Len(rows) } :
        \A k \in 1..Len(rows) : ~ScoreGreater(rows[k].riskScore, m)

\* Math.min(maxScore * 1.2, 1), the max of the slider, in units of 0.00001.
SliderMax(rows) ==
    LET m == maxScore(rows)
    IN  IF m.kind = "finite"
        THEN (IF m.milli * 120 < 100000 THEN m.milli * 120 ELSE 100000)
        ELSE IF m.milli > 0 THEN 100000 ELSE 0

\* The positions the slider is moved to (in units of 0.00001) and the texts of
\* the number input: an emptied input and a negative number.
SliderPositions == { 30000 }
NumberInputs == { <<>>, <<"-", "1">> }

\* The slider: setThreshold(parseFloat(e.target.value)), the value being one
\* between the min and the max of the slider.
SetThresholdBySlider ==
    /\ data # <<>>
    /\ \E v \in SliderPositions :
           /\ 0 <= v /\ v <= SliderMax(data)
           /\ threshold' = v
    /\ UNCHANGED <<data, loading, error, selectedIds, hasSourceData, riskBatches,
                   sourceLoading, sourceJobs, normVars, procVars, appVars>>

\* The number input: setThreshold(Math.max(0, parseFloat(e.target.value) || 0))
SetThresholdByNumber ==
    /\ data # <<>>
    /\ \E v \in NumberInputs :
           LET parsed == parseFloat(v)
               orZero == IF parsed.kind = "finite" THEN parsed.milli * 100 ELSE 0
           IN  threshold' = IF orZero > 0 THEN orZero ELSE 0
    /\ UNCHANGED <<data, loading, error, selectedIds, hasSourceData, riskBatches,
                   sourceLoading, sourceJobs, normVars, procVars, appVars>>

Init == InitRisk /\ InitApp /\ IdleNorm /\ IdleProc

Next ==
    \/ RiskHandleFilesSelect
    \/ RiskFileLoaded
    \/ UploadNewFiles
    \/ SourceFileSelect
    \/ SourceFileLoaded
    \/ ToggleSelectRow
    \/ ToggleSelectAll
    \/ ClearSelection
    \/ SetThresholdBySlider
    \/ SetThresholdByNumber

Spec == Init /\ [][Next]_vars

(***************************************************************************)
(* SpecApp: the batch processor of App                                     *)
(*                                                                         *)
(* A call of handleFilesSelect is a batch: its files, the index of the     *)
(* file whose processCSV it awaits (pos), the id generated for that file,  *)
(* newResults, whether it has returned (done), and the processedFiles      *)
(* length and previewFileId its closure captured when it was called.       *)
(***************************************************************************)

\* At most MaxAppUploads files are given to App in a session.
MaxAppUploads == 3

\* The files of the session: a file with a row, a duplicate of it and a row
\* without content; a file without rows; a file whose read fails.
AppFiles ==
    { File("good.csv", "gbk", <<H_id, H_neirong>>,
           << <<<<"7">>, <<"a">>>>,
              <<<<"7">>, Prefix \o <<":", "a">>>>,
              <<<<"7">>>> >>),
      File("empty.csv", "gbk", <<H_content>>, <<>>),
      Unreadable(File("bad.csv", "gbk", <<H_id>>, << <<<<"7">>>> >>)) }

ERR_UNKNOWN == "Unknown processing error"

\* A variant of the loop body that records nothing for a file that failed.
PushResultSkipFailed(newResults, id, file, result) ==
    IF result.ok
    THEN Append(newResults,
             [id |-> id, originalName |-> file.name, data |-> result.data,
              stats |-> result.stats, error |-> ""])
    ELSE newResults

\* The body of the for loop of handleFilesSelect after its await: newResults
\* with the entry of the file pushed; error "" is the absent error property.
PushResult(newResults, id, file, result) ==
    IF result.ok
    THEN Append(newResults,
             [id |-> id, originalName |-> file.name, data |-> result.data,
              stats |-> result.stats, error |-> ""])
    ELSE Append(newResults,
             [id |-> id, originalName |-> file.name, data |-> <<>>,
              stats |-> ZeroStats,
              error |-> IF result.error # "" THEN result.error ELSE ERR_UNKNOWN])

\* newResults.find(f => !f.error), as the set of its ids (empty when none).
FirstSuccessId(newResults) ==
    { newResults[k].id : k \in { k \in 1..Len(newResults) :
          /\ newResults[k].error = ""
          /\ \A j \in 1..(k - 1) : newResults[j].error # "" } }

\* A variant of the updater that puts the new entries in the place of the list.
ReplaceByNewResults(prev, newResults) == newResults

\* The updater prev => [...prev, ...newResults] given to setProcessedFiles.
AppendNewResults(prev, newResults) == prev \o newResults

\* handleFilesSelect of App up to its first await: setLoading(true), the id of
\* the first file, processCSV started. A drop does not check the loading flag.
AppHandleFilesSelect ==
    /\ \E n \in 1..(MaxAppUploads - SumLen(appBatches)) : \E files \in [1..n -> AppFiles] :
           appBatches' = Append(appBatches,
               [ files          |-> files,
                 pos            |-> 1,
                 id             |-> nextId + 1,
                 newResults     |-> <<>>,
                 done           |-> FALSE,
                 closureLength  |-> Len(processedFiles),
                 closurePreview |-> previewFileId ])
    /\ nextId' = nextId + 1
    /\ appLoading' = TRUE
    /\ UNCHANGED <<processedFiles, previewFileId, normVars, procVars, riskVars>>

\* The FileReader event of the file batch b awaits: the entry of the file is
\* pushed; then the loop goes on to the next file or, after the last one, the
\* batch is appended to processedFiles and the loading flag is cleared.
AppFileSettled ==
    \E b \in 1..Len(appBatches) :
      \E result \in { processCSV(appBatches[b].files[appBatches[b].pos]) } :
        LET batch      == appBatches[b]
            newResults == PushResult(batch.newResults, batch.id,
                                     batch.files[batch.pos], result)
            last       == batch.pos = Len(batch.files)
            first      == FirstSuccessId(newResults)
        IN  /\ ~batch.done
            /\ appBatches' = [appBatches EXCEPT ![b] =
                   [ batch EXCEPT !.newResults = newResults,
                                  !.pos = IF last THEN @ ELSE @ + 1,
                                  !.id = IF last THEN @ ELSE nextId + 1,
                                  !.done = last ]]
            /\ nextId' = IF last THEN nextId ELSE nextId + 1
            /\ processedFiles' = IF last THEN AppendNewResults(processedFiles, newResults)
                                 ELSE processedFiles
            /\ appLoading' = IF last THEN FALSE ELSE appLoading
            /\ previewFileId' =
                   IF last /\ first # {} /\ batch.closurePreview = NoId
                      /\ batch.closureLength = 0
                   THEN CHOOSE id \in first : TRUE
                   ELSE previewFileId
            /\ UNCHANGED <<normVars, procVars, riskVars>>

removeFile ==
    \E k \in 1..Len(processedFiles) :
        LET id == processedFiles[k].id
        IN  /\ processedFiles' = SelectSeq(processedFiles, LAMBDA f : f.id # id)
            /\ previewFileId' = IF previewFileId = id THEN NoId ELSE previewFileId
            /\ UNCHANGED <<appLoading, appBatches, nextId, normVars, procVars, riskVars>>

reset ==
    /\ processedFiles # <<>>
    /\ processedFiles' = <<>>
    /\ previewFileId' = NoId
    /\ UNCHANGED <<appLoading, appBatches, nextId, normVars, procVars, riskVars>>

InitAppSpec == InitApp /\ InitRisk /\ IdleNorm /\ IdleProc

NextApp == AppHandleFilesSelect \/ AppFileSettled \/ removeFile \/ reset

SpecApp == InitAppSpec /\ [][NextApp]_vars

(***************************************************************************)
(* Properties of normalizeContent                                          *)
(***************************************************************************)

\* The number of occurrences of p in s.
Occurrences(s, p) ==
    Cardinality({ i \in 0..(Len(s) - Len(p)) : SubSeq(s, i + 1, i + Len(p)) = p })

\* The input, less its leading whitespace, starts with the prefix.
PrefixedOnce(s) == StartsWith(DropWhile(s, WhiteSpace), Prefix)

\* The input, less its leading whitespace, starts with the prefix, an optional
\* colon and optional whitespace, and then the prefix again.
PrefixedTwice(s) ==
    LET t == DropWhile(s, WhiteSpace)
    IN  /\ StartsWith(t, Prefix)
        /\ LET a == Drop(t, Len(Prefix))
           IN  \/ StartsWith(DropWhile(a, WhiteSpace), Prefix)
               \/ /\ a # <<>>
                  /\ Head(a) \in Colons
                  /\ StartsWith(DropWhile(Tail(a), WhiteSpace), Prefix)

\* C1 (as stated): normalizeContent(normalizeContent(x)) = normalizeContent(x)
\* for every input x.
C1_IdempotentAll == nPc = "twice" => nTwice = nOnce

\* C1 (amended): normalizeContent(normalizeContent(x)) = normalizeContent(x)
\* exactly for the inputs x that do not start with the prefix twice; on an input
\* that starts with it twice the second application strips the occurrence the
\* first one kept.
C1_IdempotentUnlessPrefixedTwice ==
    nPc = "twice" => (nTwice = nOnce <=> ~PrefixedTwice(nText))

\* C1 witness: an input that starts with the prefix once has been normalized
\* twice, with equal results.
C1_Witness ==
    /\ nPc = "twice"
    /\ PrefixedOnce(nText)
    /\ ~PrefixedTwice(nText)
    /\ nOnce # <<>>
    /\ nTwice = nOnce

\* C2: the prefix is removed exactly once and only at the very start of the
\* trimmed input: the result has as many occurrences of the prefix as the input
\* when the input does not start with it, one less when it does, and an input
\* that starts with it twice yields a result that starts with it (once).
C2_PrefixRemovedOnce ==
    nPc # "in" =>
        /\ Occurrences(nOnce, Prefix) =
               Occurrences(nText, Prefix) - (IF PrefixedOnce(nText) THEN 1 ELSE 0)
        /\ PrefixedTwice(nText) => StartsWith(nOnce, Prefix)
        /\ (PrefixedOnce(nText) /\ ~PrefixedTwice(nText)) => ~StartsWith(nOnce, Prefix)
        /\ ~PrefixedOnce(nText) => nOnce = trim(CollapseLineBreaks(trim(nText)))

\* C2 witness: an input that starts with the prefix twice has been normalized
\* and the result starts with the prefix and holds it once.
C2_Witness ==
    /\ nPc = "once"
    /\ PrefixedTwice(nText)
    /\ Occurrences(nText, Prefix) = 2
    /\ Occurrences(nOnce, Prefix) = 1
    /\ StartsWith(nOnce, Prefix)

(***************************************************************************)
(* Properties of processCSV                                                *)
(***************************************************************************)

\* The rows processCSV iterates over: those of the GBK decode of the file.
RawRows == DecodeAndParse("gbk", pFile).data

HasContentHeader(label) ==
    LET fields == DecodeAndParse(label, pFile).fields
    IN  \E i \in 1..Len(fields) : IsContentHeader(fields[i])

\* The normalized content of raw row i of a file whose content column is its
\* header number col, and the empty string when the cell is missing.
NormalizedAt(col, i) ==
    IF col <= Len(RawRows[i]) THEN normalizeContent(RawRows[i][col]) ELSE <<>>

\* The header number of the first content header of the GBK decode.
ContentColumn ==
    LET fields == DecodeAndParse("gbk", pFile).fields
    IN  CHOOSE c \in 1..Len(fields) :
            /\ IsContentHeader(fields[c])
            /\ \A j \in 1..(c - 1) : ~IsContentHeader(fields[j])

\* C3: for every file with a locatable content column, totalRows is the number
\* of raw rows, validRows the number of emitted rows, and validRows + skippedRows
\* = totalRows.
C3_StatsAddUp ==
    (pPc = "done" /\ pOut.ok) =>
        /\ pOut.stats.totalRows = Len(RawRows)
        /\ pOut.stats.validRows = Len(pOut.data)
        /\ pOut.stats.validRows + pOut.stats.skippedRows = pOut.stats.totalRows

\* C3 witness: a file with an emitted row, a row without content, a row that is
\* empty once normalized or a duplicate, has been processed.
C3_Witness ==
    /\ pPc = "done"
    /\ pOut.ok
    /\ pOut.stats.validRows = 1
    /\ pOut.stats.skippedRows = 2
    /\ \E i \in 1..Len(RawRows) : NormalizedAt(ContentColumn, i) = <<>>
    /\ \E i, j \in 1..Len(RawRows) :
           i < j /\ NormalizedAt(ContentColumn, i) = NormalizedAt(ContentColumn, j)
                 /\ NormalizedAt(ContentColumn, i) # <<>>

\* C4: no two emitted rows have equal content: the emitted rows are, in input
\* order, the rows whose normalized content is not empty and is that of no
\* earlier row, each with the constant strategy tag.
C4_FirstOccurrencesInOrder ==
    (pPc = "done" /\ pOut.ok) =>
        LET emitted == { i \in 1..Len(RawRows) :
                           /\ NormalizedAt(ContentColumn, i) # <<>>
                           /\ \A j \in 1..(i - 1) :
                                  NormalizedAt(ContentColumn, j) # NormalizedAt(ContentColumn, i) }
            rank(i) == Cardinality({ j \in emitted : j <= i })
        IN  /\ Len(pOut.data) = Cardinality(emitted)
            /\ \A i \in emitted :
                   pOut.data[rank(i)] =
                       [strategy |-> "service_safe_cate_v2",
                        content  |-> NormalizedAt(ContentColumn, i)]
            /\ \A k, l \in 1..Len(pOut.data) :
                   k # l => pOut.data[k].content # pOut.data[l].content

\* C4 witness: a file in which a content comes back after a different one (a,
\* b, a) has been processed, and two rows were emitted.
C4_Witness ==
    /\ pPc = "done"
    /\ pOut.ok
    /\ Len(RawRows) = 3
    /\ NormalizedAt(ContentColumn, 1) = NormalizedAt(ContentColumn, 3)
    /\ NormalizedAt(ContentColumn, 1) # NormalizedAt(ContentColumn, 2)
    /\ Len(pOut.data) = 2

\* C9: processCSV resolves the content column through the encoding fallback: it
\* rejects with the content-column error only when neither the GBK nor the
\* UTF-8 decode has a content header, and a file whose UTF-8 decode has one is
\* processed successfully.
C9_ContentColumnFallback ==
    (pPc = "done" /\ pFile.readable) =>
        /\ pOut.error = ERR_NO_CONTENT =>
               (~HasContentHeader("gbk") /\ ~HasContentHeader("utf-8"))
        /\ HasContentHeader("utf-8") => pOut.ok

(***************************************************************************)
(* Properties of processRiskCSV                                            *)
(***************************************************************************)

ScoreHeaderIn(label) ==
    LET fields == DecodeAndParse(label, pFile).fields
    IN  \E i \in 1..Len(fields) : isColumnFound(fields[i])

\* The string has a character a decoder of the wrong label produced.
Garbled(s) == s # Undefined /\ \E i \in 1..Len(s) : s[i] \in { Mojibake(c) : c \in NonAscii }

\* C8: at most two decode attempts, GBK then UTF-8, the second only when no
\* GBK-decoded header satisfies the score-column predicate; when the second is
\* made everything returned comes from the UTF-8 decode: the rows (each one's
\* originalRow is the UTF-8 row of its index, its content and type come from
\* that row's cells) or the error's header list.
C8_SingleRetryUtf8Result ==
    (pPc = "done" /\ pFile.readable) =>
        LET utf8 == DecodeAndParse("utf-8", pFile)
        IN  /\ pOut.attempts \in { <<"gbk">>, <<"gbk", "utf-8">> }
            /\ (pOut.attempts = <<"gbk", "utf-8">>) <=> ~ScoreHeaderIn("gbk")
            /\ (pOut.attempts = <<"gbk", "utf-8">> /\ ScoreHeaderIn("utf-8")) =>
                   /\ pOut.ok
                   /\ \A k \in 1..Len(pOut.rows) :
                          LET r == pOut.rows[k]
                              cells == { utf8.data[r.id + 1][i] :
                                           i \in 1..Len(utf8.data[r.id + 1]) }
                          IN  /\ r.id + 1 \in 1..Len(utf8.data)
                              /\ r.originalRow = utf8.data[r.id + 1]
                              /\ r.content \in cells \cup { normalizeContent(c) : c \in cells }
                                                   \cup { <<>>, Undefined }
                              /\ r.riskType \in cells \cup { NOT_AVAILABLE, Undefined }
                              /\ \E c \in cells : r.riskScore = parseFloat(c)
            /\ (pOut.attempts = <<"gbk", "utf-8">> /\ ~ScoreHeaderIn("utf-8")) =>
                   /\ ~pOut.ok
                   /\ pOut.rows = <<>>
                   /\ pOut.error.columns = utf8.fields

\* C8 witness: a UTF-8 file whose score header is Chinese was decoded twice and
\* a row with Chinese content was emitted from the UTF-8 decode.
C8_Witness ==
    /\ pPc = "done"
    /\ pFile.encoding = "utf-8"
    /\ pOut.attempts = <<"gbk", "utf-8">>
    /\ pOut.ok
    /\ \E k \in 1..Len(pOut.rows) :
           /\ StartsWith(pOut.rows[k].content, Prefix)
           /\ ~Garbled(pOut.rows[k].content)

\* The whole trimmed text is a non-negative decimal number: digits with at most
\* one point among them and an optional exponent.
PlainNumber(text) ==
    /\ text # Undefined
    /\ LET t == trim(text)
           mantissa == TakeWhile(t, DigitSet \cup {"."})
           rest == Drop(t, Len(mantissa))
       IN  /\ \E i \in 1..Len(mantissa) : mantissa[i] \in DigitSet
           /\ Cardinality({ i \in 1..Len(mantissa) : mantissa[i] = "." }) <= 1
           /\ \/ rest = <<>>
              \/ /\ Head(rest) \in {"e", "E"}
                 /\ Len(rest) > 1
                 /\ \A i \in 2..Len(rest) : rest[i] \in DigitSet

\* C10: every emitted row has a finite, non-negative riskScore, and a raw row
\* whose score cell is absent, empty or not a valid number is not emitted.
C10_ScoresFiniteNonNegative ==
    (pPc = "done" /\ pOut.ok) =>
        LET d == DecodeWithFallback(pFile)
        IN  /\ \A k \in 1..Len(pOut.rows) :
                   /\ pOut.rows[k].riskScore.kind = "finite"
                   /\ pOut.rows[k].riskScore.milli >= 0
            /\ \A i \in 1..Len(d.data) :
                   ~PlainNumber(Cell(d.fields, d.data[i], d.scoreKey)) =>
                       \A k \in 1..Len(pOut.rows) : pOut.rows[k].id # i - 1

(***************************************************************************)
(* Properties of RiskAnalyzer.handleFilesSelect                            *)
(***************************************************************************)

\* Batch b is in the list before and after the step.
IsBatch(b) == b \in 1..Len(riskBatches) /\ b \in 1..Len(riskBatches')

\* In this step the await of Promise.all of batch b returns: its last promise
\* is fulfilled and none was rejected.
Merges(b) ==
    /\ IsBatch(b)
    /\ ~riskBatches[b].settled
    /\ riskBatches'[b].settled
    /\ \A i \in 1..Len(riskBatches'[b].files) : riskBatches'[b].results[i].ok

\* The number of rows of the files before file i of the batch.
RECURSIVE RowsBefore(_, _)
RowsBefore(results, i) ==
    IF i = 1 THEN 0 ELSE RowsBefore(results, i - 1) + Len(results[i - 1].rows)

\* C5: a merge of files with n1..nK rows that has rows yields exactly sum(ni)
\* rows, file after file in selection order and in each file's own order, with
\* ids 0..sum(ni)-1 in position order whatever the per-file ids were; and in
\* every state the ids of the dataset are its positions 0..n-1.
C5_MergeStep ==
    \A b \in 1..Len(riskBatches) :
        Merges(b) =>
            LET rs == riskBatches'[b].results
                total == RowsBefore(rs, Len(rs) + 1)
            IN  total > 0 =>
                    /\ Len(data') = total
                    /\ \A i \in 1..Len(rs) : \A j \in 1..Len(rs[i].rows) :
                           LET k == RowsBefore(rs, i) + j
                           IN  /\ data'[k].id = k - 1
                               /\ data'[k].content = rs[i].rows[j].content
                               /\ data'[k].riskScore = rs[i].rows[j].riskScore
                               /\ data'[k].riskType = rs[i].rows[j].riskType
                               /\ data'[k].originalRow = rs[i].rows[j].originalRow

C5_DenseIds == \A k \in 1..Len(data) : data[k].id = k - 1

Completes(b) ==
    /\ IsBatch(b)
    /\ riskBatches[b].loaded # 1..Len(riskBatches[b].files)
    /\ riskBatches'[b].loaded = 1..Len(riskBatches'[b].files)

\* C6: when the last file of a batch has settled, the rows of every file of the
\* batch that extracted successfully are in the dataset, whether or not another
\* file of the batch failed.
C6_FailureContainedStep ==
    \A b \in 1..Len(riskBatches) :
        Completes(b) =>
            \A i \in 1..Len(riskBatches'[b].files) :
                LET r == riskBatches'[b].results[i]
                IN  r.ok =>
                        \A j \in 1..Len(r.rows) :
                            \E k \in 1..Len(data') :
                                /\ data'[k].content = r.rows[j].content
                                /\ data'[k].riskScore = r.rows[j].riskScore
                                /\ data'[k].originalRow = r.rows[j].originalRow

C6_FailureContained == [][C6_FailureContainedStep]_vars

(***************************************************************************)
(* Properties of App.handleFilesSelect                                     *)
(***************************************************************************)

\* In this step batch b of App appends its results to processedFiles.
Commits(b) ==
    /\ b \in 1..Len(appBatches) /\ b \in 1..Len(appBatches')
    /\ ~appBatches[b].done
    /\ appBatches'[b].done

\* C7: a batch appends exactly one result per file, in selection order; the
\* result of a file whose processCSV rejects has a non-empty error, no rows and
\* all-zero stats; the result of every other file is what processCSV gives for
\* that file alone, whatever the other files of the batch did.
C7_OneResultPerFileStep ==
    \A b \in 1..Len(appBatches) :
        Commits(b) =>
            LET files == appBatches'[b].files
                nr    == appBatches'[b].newResults
            IN  /\ Len(nr) = Len(files)
                /\ processedFiles' = processedFiles \o nr
                /\ \A i, j \in 1..Len(nr) : i # j => nr[i].id # nr[j].id
                /\ \A i \in 1..Len(files) :
                       LET alone == processCSV(files[i])
                       IN  /\ nr[i].originalName = files[i].name
                           /\ alone.ok =>
                                  /\ nr[i].error = ""
                                  /\ nr[i].data = alone.data
                                  /\ nr[i].stats = alone.stats
                           /\ ~alone.ok =>
                                  /\ nr[i].error # ""
                                  /\ nr[i].data = <<>>
                                  /\ nr[i].stats = [totalRows |-> 0, validRows |-> 0,
                                                    skippedRows |-> 0]

C7_OneResultPerFile == [][C7_OneResultPerFileStep]_vars

\* C7 witness: a batch whose first file failed and whose second file has rows
\* has been appended to processedFiles.
C7_Witness ==
    \E b \in 1..Len(appBatches) :
        /\ appBatches[b].done
        /\ Len(appBatches[b].files) >= 2
        /\ appBatches[b].newResults[1].error # ""
        /\ appBatches[b].newResults[2].error = ""
        /\ appBatches[b].newResults[2].data # <<>>
        /\ \E k \in 1..(Len(processedFiles) - 1) :
               /\ processedFiles[k] = appBatches[b].newResults[1]
               /\ processedFiles[k + 1] = appBatches[b].newResults[2]

(***************************************************************************)
(* Properties of processSourceMapping                                      *)
(***************************************************************************)

\* The decode processSourceMapping settles on, with its NID and content columns
\* as header numbers (0 when there is none).
SourceDecode == DecodeSource(pFile)

HeaderNumber(fields, key) ==
    IF \E c \in 1..Len(fields) : fields[c] = key
    THEN CHOOSE c \in 1..Len(fields) : fields[c] = key /\ \A j \in 1..(c - 1) : fields[j] # key
    ELSE 0

\* Cell number col of a row, when it is there and not empty.
Filled(row, col) == col \in 1..Len(row) /\ row[col] # <<>>

\* C12: the keys of the mapping are exactly the non-empty normalized contents
\* of the source rows that have a non-empty NID cell and a non-empty content
\* cell, and the value of a key is the NID of the last such row, in file
\* order, whose content normalizes to the key.
C12_MappingLastWins ==
    (pPc = "done" /\ pOut.ok) =>
        LET rows == SourceDecode.data
            nc   == HeaderNumber(SourceDecode.fields, SourceDecode.nidKey)
            cc   == HeaderNumber(SourceDecode.fields, contentKeySource(SourceDecode.fields))
            usable == { i \in 1..Len(rows) :
                          /\ Filled(rows[i], nc)
                          /\ Filled(rows[i], cc)
                          /\ normalizeContent(rows[i][cc]) # <<>> }
        IN  /\ DOMAIN pOut.mapping = { normalizeContent(rows[i][cc]) : i \in usable }
            /\ \A k \in DOMAIN pOut.mapping :
                   \E i \in usable :
                       /\ normalizeContent(rows[i][cc]) = k
                       /\ pOut.mapping[k] = rows[i][nc]
                       /\ \A j \in usable : normalizeContent(rows[j][cc]) = k => j <= i

\* C12 witness: a source file whose two rows normalize to the same content and
\* carry different NIDs has been mapped to the NID of the second row.
C12_Witness ==
    /\ pPc = "done"
    /\ pOut.ok
    /\ Len(SourceDecode.data) = 2
    /\ LET rows == SourceDecode.data
           nc   == HeaderNumber(SourceDecode.fields, SourceDecode.nidKey)
           cc   == HeaderNumber(SourceDecode.fields, contentKeySource(SourceDecode.fields))
       IN  /\ \A i \in 1..2 : Filled(rows[i], nc) /\ Filled(rows[i], cc)
           /\ rows[1][nc] # rows[2][nc]
           /\ rows[1][cc] # rows[2][cc]
           /\ normalizeContent(rows[1][cc]) = normalizeContent(rows[2][cc])
           /\ DOMAIN pOut.mapping = { normalizeContent(rows[2][cc]) }
           /\ pOut.mapping[normalizeContent(rows[2][cc])] = rows[2][nc]

(***************************************************************************)
(* Properties of RiskAnalyzer.handleSourceFileSelect                       *)
(***************************************************************************)

\* In this step the await of processSourceMapping of job j returns.
Joins(j) ==
    /\ j \in 1..Len(sourceJobs) /\ j \in 1..Len(sourceJobs')
    /\ ~sourceJobs[j].done
    /\ sourceJobs'[j].done
    /\ processSourceMapping(sourceJobs[j].file).ok

\* Some row of the dataset has an nid.
SomeNid(rows) == \E k \in 1..Len(rows) : RowNid(rows[k]) \notin {Undefined, <<>>}

\* C11: when a join completes, every row whose content is (exactly) a key of
\* the mapping has the mapped value as nid and every other row's nid is what it
\* was; the linked flag is on afterwards iff some row of the joined dataset has
\* an nid; the error message is not written, whether or not a row matched.
C11_JoinStep ==
    \A j \in 1..Len(sourceJobs) :
        Joins(j) =>
            LET mapping == processSourceMapping(sourceJobs[j].file).mapping
            IN  /\ Len(data') = Len(data)
                /\ \A k \in 1..Len(data) :
                       IF data[k].content \in DOMAIN mapping
                       THEN RowNid(data'[k]) = mapping[data[k].content]
                       ELSE RowNid(data'[k]) = RowNid(data[k])
                /\ hasSourceData' <=> SomeNid(data')
                /\ error' = error

C11_JoinByExactContent == [][C11_JoinStep]_vars

\* C11 witness: a join has completed on a dataset of which it matched one row
\* (a) and not another (b, while the mapping has the key bb): the first has the
\* mapped nid, the second none, and the linked flag is on.
C11_Witness ==
    /\ \E j \in 1..Len(sourceJobs) :
           /\ sourceJobs[j].done
           /\ <<"b", "b">> \in DOMAIN processSourceMapping(sourceJobs[j].file).mapping
    /\ hasSourceData
    /\ error = NoError
    /\ \E k, l \in 1..Len(data) :
           /\ data[k].content = <<"a">> /\ RowNid(data[k]) = <<"N", "1">>
           /\ data[l].content = <<"b">> /\ RowNid(data[l]) = Undefined

\* C11 witness of the other case: a join that matched no row has completed and
\* the linked flag is off.
C11_WitnessNoMatch ==
    /\ \E j \in 1..Len(sourceJobs) :
           /\ sourceJobs[j].done
           /\ processSourceMapping(sourceJobs[j].file).ok
    /\ data # <<>>
    /\ ~SomeNid(data)
    /\ ~hasSourceData
    /\ error = NoError

(***************************************************************************)
(* Properties of downloadRiskData                                          *)
(***************************************************************************)

\* A reader of a quoted CSV field: text[pos] is the opening quote; two quotes
\* in a row stand for one quote, a single quote closes the field. It gives the
\* field's value and the position after the closing quote, or ok = FALSE when
\* the text ends before the field is closed.
RECURSIVE ReadQuotedFrom(_, _, _)
ReadQuotedFrom(text, pos, value) ==
    IF pos > Len(text) THEN [ok |-> FALSE, value |-> value, next |-> pos]
    ELSE IF text[pos] # "\"" THEN ReadQuotedFrom(text, pos + 1, Append(value, text[pos]))
    ELSE IF pos < Len(text) /\ text[pos + 1] = "\""
         THEN ReadQuotedFrom(text, pos + 2, Append(value, "\""))
         ELSE [ok |-> TRUE, value |-> value, next |-> pos + 1]

ReadQuoted(text, pos) ==
    IF pos > Len(text) \/ text[pos] # "\"" THEN [ok |-> FALSE, value |-> <<>>, next |-> pos]
    ELSE ReadQuotedFrom(text, pos + 1, <<>>)

\* The text from pos on is the records of rows k.. : for each row its three
\* unquoted fields, then the quoted field that reads back as the row's content,
\* then a line break before the next record or the end of the text.
RECURSIVE ReadsBack(_, _, _, _)
ReadsBack(text, pos, rows, k) ==
    IF k > Len(rows) THEN pos = Len(text) + 1
    ELSE LET nid   == IF "nid" \in DOMAIN rows[k] THEN rows[k].nid ELSE <<>>
             head  == nid \o <<",">> \o NumberToString(rows[k].riskScore) \o <<",">>
                          \o rows[k].riskType \o <<",">>
             field == ReadQuoted(text, pos + Len(head))
         IN  /\ SubSeq(text, pos, pos + Len(head) - 1) = head
             /\ field.ok
             /\ field.value = rows[k].content
             /\ IF k = Len(rows) THEN field.next = Len(text) + 1
                ELSE /\ field.next <= Len(text)
                     /\ text[field.next] = "\n"
                     /\ ReadsBack(text, field.next + 1, rows, k + 1)

\* The text starts with the byte-order mark, the header line and a line break.
ExportPreamble == BOM \o RISK_HEADER \o <<"\n">>

\* C13: for every list of rows whose contents are strings, the text written
\* is the byte-order mark, the header line 'nid,risk_score,risk_type,content'
\* and one record per row in row order, whose last field is the content in
\* double quotes with every double quote doubled: reading the quoted field
\* back gives the row's content, and the field He said "hi" is written as
\* "He said ""hi""".
C13_QuotedContentReadsBack ==
    (pPc = "done" /\ \A k \in 1..Len(pFile) : pFile[k].content # Undefined) =>
        /\ ~pOut.thrown
        /\ StartsWith(pOut.text, ExportPreamble)
        /\ ReadsBack(pOut.text, Len(ExportPreamble) + 1, pFile, 1)
        /\ \A k \in 1..Len(pFile) :
               pFile[k].content = <<"H", "e", " ", "\"", "h", "i", "\"">> =>
                   includes(pOut.text,
                            <<",", "\"", "H", "e", " ", "\"", "\"", "h", "i", "\"", "\"", "\"">>)

\* C13 witness: two rows, the first with double quotes, a comma and a line
\* break in its content, have been written.
C13_Witness ==
    /\ pPc = "done"
    /\ Len(pFile) = 2
    /\ pFile[1].content = <<"a", ",", "\"", "\n", "b">>
    /\ pFile[2].content = <<"H", "e", " ", "\"", "h", "i", "\"">>
    /\ ~pOut.thrown
    /\ ReadsBack(pOut.text, Len(ExportPreamble) + 1, pFile, 1)

(***************************************************************************)
(* Properties of downloadZip                                               *)
(***************************************************************************)

\* The file results of the list that have no error and at least one row.
Archivable == { i \in 1..Len(pFile) : pFile[i].error = "" /\ pFile[i].data # <<>> }

\* C14: the archive has exactly one entry per file result without error and
\* with rows (as many entries as such results, and for each of them an entry
\* named after it that holds its rows), and none for any other, for every
\* list of file results, also when two of them have the same base name.
C14_OneEntryPerFile ==
    (pPc = "done" /\ pOut.downloaded) =>
        /\ Cardinality(DOMAIN pOut.entries) = Cardinality(Archivable)
        /\ \A i \in Archivable :
               \E name \in DOMAIN pOut.entries :
                   /\ StartsWith(name, SubSeq(pFile[i].originalName, 1,
                                              Len(pFile[i].originalName) - 4))
                   /\ pOut.entries[name] = formatFileContent(pFile[i].data)

(***************************************************************************)
(* Properties of the batches of RiskAnalyzer                               *)
(***************************************************************************)

\* C15: when the await of Promise.all of a batch returns and the files of the
\* batch have no row in total, handleFilesSelect sets the no-valid-rows
\* message, the dataset is empty afterwards and the loading flag is off.
C15_NoValidRowsStep ==
    \A b \in 1..Len(riskBatches) :
        (Merges(b) /\ FlatRows(riskBatches'[b].results) = <<>>) =>
            /\ error' = [message |-> ERR_NO_VALID_ROWS, columns |-> <<>>]
            /\ data' = <<>>
            /\ loading' = FALSE

C15_NoValidRows == [][C15_NoValidRowsStep]_vars

\* The dataset is the merge of the results, but for the nid a join has set.
IsMergeOf(rows, results) ==
    LET merged == combinedData(results)
    IN  /\ Len(rows) = Len(merged)
        /\ \A k \in 1..Len(rows) :
               [f \in DOMAIN rows[k] \ {"nid"} |-> rows[k][f]] = merged[k]

\* Every file of the batch has been extracted, all of them successfully.
WholeBatch(batch) ==
    /\ batch.loaded = 1..Len(batch.files)
    /\ \A i \in 1..Len(batch.files) : batch.results[i].ok

\* C16 for RiskAnalyzer: a step that puts rows in the dataset is the step in
\* which the last file of a batch is extracted, and it puts the rows of all the
\* files of that batch.
C16_RiskStep ==
    (data' # data /\ Len(data') # 0 /\ sourceJobs' = sourceJobs) =>
        \E b \in 1..Len(riskBatches) :
            /\ Merges(b)
            /\ WholeBatch(riskBatches'[b])
            /\ data' = combinedData(riskBatches'[b].results)

\* C16 for App: a step that adds entries to the processed-file list is the step
\* in which the last file of a batch is extracted, and it adds one entry for
\* each file of that batch.
C16_AppStep ==
    Len(processedFiles') > Len(processedFiles) =>
        \E b \in 1..Len(appBatches) :
            /\ Commits(b)
            /\ Len(appBatches'[b].newResults) = Len(appBatches'[b].files)
            /\ processedFiles' = processedFiles \o appBatches'[b].newResults

\* C16 as a property of the states: the dataset is empty or the merge of all
\* the files of one batch, every one of which has been extracted.
C16_WholeBatches ==
    \/ data = <<>>
    \/ \E b \in 1..Len(riskBatches) :
           /\ riskBatches[b].settled
           /\ WholeBatch(riskBatches[b])
           /\ IsMergeOf(data, riskBatches[b].results)

\* C16: the dataset (and the processed-file list) is written with the rows of
\* a batch only once every file of the batch has been extracted, in whatever
\* order the files are extracted: no state holds rows of a part of a batch.
C16_NoPartialBatch == [][C16_RiskStep /\ C16_AppStep]_vars /\ []C16_WholeBatches

\* C16 witness: the second file of a batch of two has been extracted before the
\* first, it gave rows, and the dataset is still empty.
C16_Witness ==
    \E b \in 1..Len(riskBatches) :
        /\ Len(riskBatches[b].files) = 2
        /\ riskBatches[b].loaded = {2}
        /\ riskBatches[b].results[2].rows # <<>>
        /\ ~riskBatches[b].settled
        /\ Len(riskBatches) = 1
        /\ data = <<>>

(***************************************************************************)
(* Properties of the column resolution                                     *)
(***************************************************************************)

\* The content column by alias priority: the first header that trims to the
\* Chinese name and, when there is none, the first that trims to 'content'.
ContentKeyByPriority(fields) ==
    OrElse(Find(fields, { f \in Headers(fields) : trim(f) = H_neirong }),
           Find(fields, { f \in Headers(fields) : trim(f) = H_content }))

\* The header list has a header for each of the two names of the content column.
HasBothContentHeaders(fields) ==
    /\ \E i \in 1..Len(fields) : trim(fields[i]) = H_neirong
    /\ \E i \in 1..Len(fields) : trim(fields[i]) = H_content

\* C17 (processCSV): when the header list has a header that trims to the
\* Chinese name and one that trims to 'content', the rows emitted are those of
\* the column with the Chinese name, whichever of the two headers comes first.
C17_ContentAliasPriority ==
    (pPc = "done" /\ pFile.readable) =>
        LET parsed == DecodeAndParse("gbk", pFile)
        IN  HasBothContentHeaders(parsed.fields) =>
                /\ pOut.ok
                /\ pOut.data = ProcessRows(parsed.fields, parsed.data,
                                           ContentKeyByPriority(parsed.fields)).processedData

\* C18: whenever the header list processRiskCSV settles on has the canonical
\* score header, that header is the score column (the emitted rows are those of
\* the rows whose cell in that column is a number), whatever comes before it;
\* and the score column is never the column resolved as the risk-type column.
C18_ScoreExactBeforeSubstring ==
    (pPc = "done" /\ pFile.readable) =>
        LET d == DecodeWithFallback(pFile)
        IN  /\ H_scoreV2 \in Headers(d.fields) =>
                   /\ d.scoreKey = H_scoreV2
                   /\ pOut.ok
                   /\ pOut.rows = ExtractRisk(d.fields, d.data, H_scoreV2)
            /\ Truthy(d.scoreKey) => d.scoreKey # typeKeyRisk(d.fields)

\* C19: when the header list processRiskCSV settles on has a score column and
\* no header that resolves as the content column, the file is rejected with an
\* error that names the two accepted header names, and no row is emitted.
C19_ContentMissFatalInRisk ==
    (pPc = "done" /\ pFile.readable) =>
        LET d == DecodeWithFallback(pFile)
        IN  (Truthy(d.scoreKey) /\ ~Truthy(contentKeyRisk(d.fields))) =>
                /\ ~pOut.ok
                /\ pOut.rows = <<>>
                /\ pOut.error.message = ERR_NO_CONTENT

\* The decode of the source file with the label has an NID column and a
\* content column.
HasSourceColumns(label) ==
    LET fields == DecodeAndParse(label, pFile).fields
    IN  Truthy(nidKeyOf(fields)) /\ Truthy(contentKeySource(fields))

\* The mapping built from the decode of the source file with the label.
MappingOf(label) ==
    LET parsed == DecodeAndParse(label, pFile)
    IN  BuildMapping(parsed.fields, parsed.data, nidKeyOf(parsed.fields),
                     contentKeySource(parsed.fields))

\* C20: when the GBK decode or the UTF-8 decode of the source file has both an
\* NID column and a content column, processSourceMapping succeeds with the
\* mapping of that decode (of the GBK one when both have them), also when the
\* GBK decode has an NID header and a garbled content header.
C20_SourceFallbackByColumns ==
    (pPc = "done" /\ pFile.readable) =>
        /\ HasSourceColumns("gbk") => (pOut.ok /\ pOut.mapping = MappingOf("gbk"))
        /\ (~HasSourceColumns("gbk") /\ HasSourceColumns("utf-8")) =>
               (pOut.ok /\ pOut.mapping = MappingOf("utf-8"))

\* In this step the await of processSourceMapping of job j throws.
JoinFails(j) ==
    /\ j \in 1..Len(sourceJobs) /\ j \in 1..Len(sourceJobs')
    /\ ~sourceJobs[j].done
    /\ sourceJobs'[j].done
    /\ ~processSourceMapping(sourceJobs[j].file).ok

\* The properties of a row other than nid.
RowLessNid(row) == [f \in DOMAIN row \ {"nid"} |-> row[f]]

\* C21: a join leaves the length and the order of the dataset and, in every
\* row, id, content, riskScore, riskType and originalRow as they were; a row
\* that gains an nid is a new value (the old one with nid set), a row without a
\* match is the value it was; when building the mapping fails the dataset and
\* the linked flag (and the selection and the upload flag) are unchanged and
\* the error message is set.
C21_JoinFrameStep ==
    \A j \in 1..Len(sourceJobs) :
        /\ Joins(j) =>
               LET mapping == processSourceMapping(sourceJobs[j].file).mapping
               IN  /\ Len(data') = Len(data)
                   /\ \A k \in 1..Len(data) :
                          /\ data'[k].id = data[k].id
                          /\ data'[k].content = data[k].content
                          /\ data'[k].riskScore = data[k].riskScore
                          /\ data'[k].riskType = data[k].riskType
                          /\ data'[k].originalRow = data[k].originalRow
                          /\ RowLessNid(data'[k]) = RowLessNid(data[k])
                          /\ data[k].content \notin DOMAIN mapping => data'[k] = data[k]
                          /\ (data[k].content \in DOMAIN mapping /\ RowNid(data[k]) = Undefined) =>
                                 /\ data'[k] # data[k]
                                 /\ DOMAIN data'[k] = DOMAIN data[k] \cup {"nid"}
                   /\ selectedIds' = selectedIds
                   /\ loading' = loading
        /\ JoinFails(j) =>
               /\ data' = data
               /\ hasSourceData' = hasSourceData
               /\ selectedIds' = selectedIds
               /\ loading' = loading
               /\ error'.message =
                      "Source File Error: " \o processSourceMapping(sourceJobs[j].file).error

C21_JoinFrame == [][C21_JoinFrameStep]_vars

\* C21 witness: after a join the dataset is, but for nid, the merge of a batch
\* of two files with three rows in its order, and its row of content a has an
\* nid while its rows of content b have none.
C21_Witness ==
    /\ \E j \in 1..Len(sourceJobs) :
           sourceJobs[j].done /\ processSourceMapping(sourceJobs[j].file).ok
    /\ \E b \in 1..Len(riskBatches) :
           /\ Len(riskBatches[b].files) = 2
           /\ IsMergeOf(data, riskBatches[b].results)
    /\ Len(data) = 3
    /\ \E k \in 1..Len(data) : RowNid(data[k]) # Undefined /\ data[k].originalRow # <<>>
    /\ \E k \in 1..Len(data) : RowNid(data[k]) = Undefined

(***************************************************************************)
(* Properties of formatFileContent                                         *)
(***************************************************************************)

\* The lines of a text: its pieces between newlines.
RECURSIVE Lines(_)
Lines(text) ==
    LET first == TakeWhile(text, { text[i] : i \in 1..Len(text) } \ {"\n"})
    IN  IF Len(first) = Len(text) THEN <<text>>
        ELSE <<first>> \o Lines(Drop(text, Len(first) + 1))

\* The number of characters of the line that are in the set.
CountIn(line, set) == Cardinality({ i \in 1..Len(line) : line[i] \in set })

C24_LinkedFlagHasNid ==
    (data # <<>> /\ hasSourceData) => SomeNid(data)

\* The ids of the rows of a dataset.
IdsOf(rows) == { rows[k].id : k \in 1..Len(rows) }

\* C25: in every reachable state with a non-empty dataset every selected id is
\* the id of a row of the dataset.
C25_SelectionWithinDataset ==
    data # <<>> => selectedIds \subseteq IdsOf(data)

(***************************************************************************)
(* SpecHandleExport: handleExport applied to a bounded state of            *)
(* RiskAnalyzer                                                            *)
(*                                                                         *)
(* handleExport reads the dataset, the threshold and the selection and     *)
(* writes none of them: pFile is the state it is called in, pOut what it   *)
(* did (the alert, or the rows it gave downloadRiskData and the download). *)
(***************************************************************************)

\* selectedIds.size > 0 ? filteredData.filter(row => selectedIds.has(row.id))
\* : filteredData
targetData(rows, t, ids) ==
    IF ids # {}
    THEN SelectSeq(filteredData(rows, t), LAMBDA row : row.id \in ids)
    ELSE filteredData(rows, t)

\* The loop over targetData with seenContent: the first row of every content.
uniqueData(target) ==
    LET RECURSIVE Loop(_, _, _)
        Loop(i, seenContent, unique) ==
            IF i > Len(target) THEN unique
            ELSE IF target[i].content \in seenContent
                 THEN Loop(i + 1, seenContent, unique)
                 ELSE Loop(i + 1, seenContent \cup {target[i].content},
                           Append(unique, target[i]))
    IN  Loop(1, {}, <<>>)

NO_EXPORT_ALERT == "No data to export."

\* handleExport in a state with that dataset, threshold and selection.
handleExport(rows, t, ids) ==
    LET target == targetData(rows, t, ids)
    IN  IF Len(target) = 0
        THEN [ alert |-> NO_EXPORT_ALERT, uniqueData |-> <<>>, download |-> NoDownload ]
        ELSE [ alert      |-> "",
               uniqueData |-> uniqueData(target),
               download   |-> downloadRiskData(uniqueData(target)) ]

\* The datasets handleExport is called with have at most MaxDatasetRows rows.
MaxDatasetRows == 3

\* The rows of the datasets but for their id: two contents with the scores 0,
\* 0.5 and Infinity each, and the undefined content of a row whose content cell
\* is missing.
DatasetRows ==
    { [ id |-> 0, content |-> c, riskScore |-> s, riskType |-> NOT_AVAILABLE,
        originalRow |-> <<>> ] :
          c \in { <<"a">>, <<"b">> },
          s \in { [kind |-> "finite", milli |-> 0], [kind |-> "finite", milli |-> 500],
                  [kind |-> "Infinity", milli |-> 1] } }
    \cup { [ id |-> 0, content |-> Undefined,
             riskScore |-> [kind |-> "finite", milli |-> 500],
             riskType |-> NOT_AVAILABLE, originalRow |-> <<>> ] }

\* The thresholds of the states: the initial one and a slider position.
ExportThresholds == { DefaultThreshold, 30000 }

\* The states handleExport is called in: a dataset with the ids the merge gives
\* (0, 1, ...), a threshold, and a selection of ids of the dataset or of the one
\* before it.
InitHandleExport ==
    /\ \E rows \in SeqsUpTo(DatasetRows, MaxDatasetRows) :
         \E t \in ExportThresholds :
           \E ids \in SUBSET (0..Len(rows)) :
               pFile = [ data        |-> [k \in 1..Len(rows) |-> [rows[k] EXCEPT !.id = k - 1]],
                         threshold   |-> t,
                         selectedIds |-> ids ]
    /\ pOut = <<>>
    /\ pPc = "in"
    /\ IdleNorm /\ InitRisk /\ InitApp

RunHandleExport ==
    /\ pPc = "in"
    /\ Len(pFile.data) > 0
    /\ pOut' = handleExport(pFile.data, pFile.threshold, pFile.selectedIds)
    /\ pPc' = "done"
    /\ UNCHANGED <<pFile, normVars, riskVars, appVars>>

NextHandleExport == RunHandleExport

SpecHandleExport == InitHandleExport /\ [][NextHandleExport]_vars

\* The target rows of the state handleExport was called in: the rows of the
\* dataset with a score of at least the threshold and, when the selection is
\* not empty, a selected id.
TargetRows ==
    { r \in { pFile.data[k] : k \in 1..Len(pFile.data) } :
          /\ ScoreAtLeast(r.riskScore, pFile.threshold)
          /\ pFile.selectedIds # {} => r.id \in pFile.selectedIds }

\* C23: the rows handleExport gives to the download have pairwise distinct
\* contents, each of them is a target row (a score of at least the threshold
\* and, when the selection is not empty, a selected id), every content of a
\* target row is the content of exactly one of them, and no target row of that
\* content has a greater score; without target rows nothing is downloaded, and
\* the download is made when the contents are strings.
C23_ExportDeduplicates ==
    pPc = "done" =>
        LET out == pOut.uniqueData
        IN  /\ \A i, j \in 1..Len(out) : i # j => out[i].content # out[j].content
            /\ \A i \in 1..Len(out) : out[i] \in TargetRows
            /\ \A r \in TargetRows :
                   Cardinality({ i \in 1..Len(out) : out[i].content = r.content }) = 1
            /\ \A i \in 1..Len(out) : \A r \in TargetRows :
                   r.content = out[i].content => ~ScoreGreater(r.riskScore, out[i].riskScore)
            /\ TargetRows = {} <=> pOut.alert # ""
            /\ TargetRows = {} => pOut.download = NoDownload
            /\ (TargetRows # {} /\ \A r \in TargetRows : r.content # Undefined) =>
                   /\ pOut.download = downloadRiskData(out)
                   /\ ~pOut.download.thrown

\* C23 witness: a dataset of three rows whose first two rows are selected, have
\* the same content and scores of at least the threshold, the second one the
\* greater score; the second row alone is exported.
C23_Witness ==
    /\ pPc = "done"
    /\ Len(pFile.data) = 3
    /\ pFile.selectedIds = {0, 1}
    /\ pFile.data[1].content = pFile.data[2].content
    /\ ScoreGreater(pFile.data[2].riskScore, pFile.data[1].riskScore)
    /\ ScoreAtLeast(pFile.data[1].riskScore, pFile.threshold)
    /\ Len(pOut.uniqueData) = 1
    /\ pOut.uniqueData[1] = pFile.data[2]

(***************************************************************************)
(* Properties of the loading flags                                         *)
(***************************************************************************)

\* A batch of RiskAnalyzer, or of App, is still being processed.
RiskBatchInFlight == \E b \in 1..Len(riskBatches) : ~riskBatches[b].settled
AppBatchInFlight == \E b \in 1..Len(appBatches) : ~appBatches[b].done

\* C26: in every reachable state the loading flag of a component is on exactly
\* when a batch of the component is still being processed, overlapping batches
\* included.
C26_LoadingWhileInFlight ==
    /\ loading <=> RiskBatchInFlight
    /\ appLoading <=> AppBatchInFlight

(***************************************************************************)
(* Properties of the batch processor of App                                *)
(***************************************************************************)

\* The entries are those of the files: one per file, in the order of the
\* files, each with the name of its file.
EntriesOf(entries, files) ==
    /\ Len(entries) = Len(files)
    /\ \A k \in 1..Len(files) : entries[k].originalName = files[k].name

\* The concatenation of the entries of the batches, in the given order.
RECURSIVE ConcatResults(_)
ConcatResults(order) ==
    IF order = <<>> THEN <<>>
    ELSE appBatches[Head(order)].newResults \o ConcatResults(Tail(order))

\* The orders of the batches: the sequences in which every batch is once.
BatchOrders ==
    { order \in [1..Len(appBatches) -> 1..Len(appBatches)] :
          \A b \in 1..Len(appBatches) : \E k \in 1..Len(appBatches) : order[k] = b }

\* Every batch has completed, and as many entries are listed as files were
\* submitted: no entry has been removed and the list has not been reset.
AllCompletedNoneRemoved ==
    /\ \A b \in 1..Len(appBatches) : appBatches[b].done
    /\ Len(processedFiles) = SumLen(appBatches)

\* C27, in a state: once every batch has completed and nothing was removed, the
\* list is the entries of the batches one batch after the other, in some order
\* of the batches, and the entries of a batch are one per file of it, in its
\* selection order; no two entries have the same id.
C27_ListOfCompletedBatches ==
    AllCompletedNoneRemoved =>
        /\ \E order \in BatchOrders : processedFiles = ConcatResults(order)
        /\ \A b \in 1..Len(appBatches) :
               EntriesOf(appBatches[b].newResults, appBatches[b].files)
        /\ \A i, j \in 1..Len(processedFiles) :
               i # j => processedFiles[i].id # processedFiles[j].id

\* C27, in a step: the step that completes a batch puts the entries of the
\* batch, one per file and in selection order, after the entries listed before,
\* which it keeps; a step that starts a batch or settles a file that is not the
\* last one of its batch leaves the list as it is.
C27_CompletionStep ==
    LET completed == { b \in 1..Len(appBatches) : ~appBatches[b].done /\ appBatches'[b].done }
    IN  /\ Len(appBatches') > Len(appBatches) => processedFiles' = processedFiles
        /\ (Len(appBatches') = Len(appBatches) /\ appBatches' # appBatches) =>
               IF completed = {} THEN processedFiles' = processedFiles
               ELSE \E b \in completed :
                        /\ completed = {b}
                        /\ EntriesOf(appBatches'[b].newResults, appBatches[b].files)
                        /\ processedFiles' = processedFiles \o appBatches'[b].newResults

\* C27: no upload is lost with overlapping batches and without removal or reset.
C27_NoUploadLost == []C27_ListOfCompletedBatches /\ [][C27_CompletionStep]_vars

\* C27 witness: two batches that both started on the empty list, the second one
\* of two files, have completed, the second one first: the list is the two
\* entries of the second batch and then the entry of the first.
C27_Witness ==
    /\ Len(appBatches) = 2
    /\ AllCompletedNoneRemoved
    /\ appBatches[1].closureLength = 0 /\ appBatches[2].closureLength = 0
    /\ Len(appBatches[2].files) = 2
    /\ processedFiles = appBatches[2].newResults \o appBatches[1].newResults

====
